---- MODULE Spec2Model ----
(***************************************************************************)
(* Model of the MPD kiosk core of mpcButtonJukebox:                        *)
(*   album_art/mpd_client.py  Tracker  (session, lock, command execution,  *)
(*                            reconnect sequence, poll, enqueue)           *)
(*   album_art/gtk_app.py     AlbumArtApp.mpd_loop and its helpers         *)
(*                            (the watcher thread)                         *)
(*   album_art/fetcher.py     Fetcher.get_album_art and its fetch methods  *)
(*                            (the art resolver, run by the watcher)       *)
(*   album_art/gtk_app.py     AlbumArtApp.update_album_art (the GTK main   *)
(*                            loop loading the artifact file)              *)
(*   album_art/mpd_client.py  Tracker.handle_input, add_song_to_mpd and    *)
(*                            the display updates (digit entry)            *)
(*   album_art/gtk_app.py     AlbumArtApp.on_key_press                     *)
(*   main.py                  main (startup and its fatal failures)        *)
(*   album_art/fetcher.py     Image.thumbnail((500, 500)) and save, as     *)
(*                            every fetch method applies them              *)
(*   combined2025-02-19b.py   on_key_press (the earlier digit handler)     *)
(*                                                                         *)
(* Threads: the watcher "w" runs mpd_loop for the process lifetime; each   *)
(* dispatcher is a daemon thread started by Tracker.handle_input for one   *)
(* completed 4-digit entry.                                                *)
(*                                                                         *)
(* A program location pc[t] names the session call the thread is inside    *)
(* (or the lock it is waiting for); the step that leaves the location      *)
(* draws the call's outcome.  Time spent in time.sleep is recorded in the  *)
(* history variables only.                                                 *)
(***************************************************************************)
EXTENDS Integers, Sequences, FiniteSets, TLC

\* ------------------------------------------------------------------ bounds
MaxQueue == 1
MaxCovers == 2
MaxPending == 1
MaxLines == 3
MaxSide == 4000

\* ------------------------------------------------------- program constants
ExecMaxAttempts == 2
RecMaxAttempts == 3
BackoffCap == 10
MaxConnectionAttempts == 10
ConnectionAttemptsAfterMax == 5
IdleRetries == 3
IdleRetryDelay == 1
IdleExhaustedDelay == 2
BufferWidth == 4
DisplayWidth == 4
ThumbnailSize == 500

Watcher == "w"
Dispatchers == {"d1", "d2"}
Threads == {Watcher} \cup Dispatchers

Tracks == {"a", "b"}
NoSong == "none"
TransportCommands == {"next", "stop", "play", "clear"}

\* Outcomes of one call on the session: success, the builtin ConnectionError,
\* mpd.CommandError, or any other exception.
Outcomes == {"ok", "conn", "cmd", "other"}

VARIABLES
    lock,                 \* Tracker.lock: "free" or the thread holding it
    client,               \* Tracker.client: "up" (connected) or "new" (fresh MPDClient)
    srvQueue,             \* the server's playlist length
    pc,                   \* per thread: the call it is inside / the lock it waits for
    task,                 \* per dispatcher: the command it was started for
    recRet,               \* per thread: the call site of the running reconnect_mpd
    recAttempt,           \* per thread: reconnect_mpd's loop variable `attempt`
    recLog,               \* per thread: the attempts of the running reconnect_mpd, each
                          \*   with its outcome and the sleep that followed it
    recOk,                \* per thread: reconnect_mpd's return value
    recDiscarded,         \* per thread: the old session was discarded in this sequence
    attempt,              \* per dispatcher: execute_mpd_command's loop variable
    cmdCalls,             \* per dispatcher: command invocations of the running execute
    recCalls,             \* per dispatcher: reconnect sequences of the running execute
    probeFailed,          \* per dispatcher: the ping of the current attempt failed
    inlineRec,            \* per dispatcher: the current attempt ran the inline reconnect (line 84)
    result,               \* per dispatcher: what the finished call returned
    current_song,         \* Tracker.current_song
    last_queue_length,    \* Tracker.last_queue_length
    previous_song,        \* check_song_update's local previous_song
    song_state,           \* check_song_update's return value (-1: none yet)
    polled,               \* the current cycle's currentsong() call returned
    resolveCount,         \* _handle_new_song calls made in the current cycle
    resolveFor,           \* the reference passed to the last _handle_new_song
    connection_attempts,  \* mpd_loop's connection_attempts
    ensState,             \* how the cycle's _ensure_mpd_connection ended
    last_song_path,       \* mpd_loop's last_song_path
    retry_count,          \* _wait_for_mpd_events' retry_count
    idleCalls,            \* client.idle calls made by the running _wait_for_mpd_events
                          \*   (counted up to one more than the retry budget)
    idleRec,              \* what followed the last failed idle call: "none", "skipped"
                          \*   (no reconnect), "ok" or "failed" (reconnect_mpd's result)
    idleWait,             \* seconds slept since the last idle call
    artifact,             \* the file at album_art_loc: "absent", "placeholder",
                          \*   "partial" (opened for writing, not completely written),
                          \*   or the track whose art it holds
    artAtPoll,            \* the artifact when the running check_song_update began
    strategy,             \* get_album_art: index of the fetch method being run (0: none)
    resLog,               \* get_album_art: the fetch methods that have returned, in order
    fmtTried,             \* mutagen_fetcher: the extraction methods it called, in order
    fmtIn,                \* mutagen_fetcher: what the file holds in each format
    coverIdx,             \* _fetch_file_based_cover: cover_formats entries examined
    coverSeen,            \* _fetch_file_based_cover: an examined entry existed
    resEnd,               \* how the cycle's _handle_new_song ended ("none": not run)
    saveFailed,           \* get_album_art: the fetch methods in which a save failed,
                          \*   and "placeholder" when the placeholder could not be
                          \*   created, opened or saved
    uiPending,            \* update_album_art callbacks queued with GLib.idle_add
    uiSeen,               \* the file contents the last update_album_art loaded
    input_buffer,         \* Tracker.input_buffer, a sequence of digits
    display_input,        \* the four characters on the input display
    inputPending,         \* update_input_display callbacks queued with GLib.idle_add
    decisions,            \* the threads the last handle_input call started, in order
    legacy_buffer,        \* input_buffer of the on_key_press of combined2025-02-19b.py,
                          \*   given the same keys
    legacy_value,         \* the value that on_key_press dispatched at the last key
                          \*   (NoValue: none)
    keyLock,              \* the holder of Tracker.lock when the last handle_input ran
    line_number,          \* per dispatcher: add_song_to_mpd's argument
    song_path,            \* per dispatcher: add_song_to_mpd's local song_path
    addLog,               \* per dispatcher: what the running add_song_to_mpd has done
                          \*   (the list file as it found it, session calls, increments
                          \*   of last_queue_length, queued display updates,
                          \*   notifications, the reference the session accepted)
    queueShown,           \* what the poll's update_queue_display printed (<<>>: not called)
    statusOk,             \* the poll's status query succeeded
    snapshotTaken,        \* some poll has stored the server's queue length
    exitCause,            \* why main() ended in sys.exit(1) ("none": it has not)
    decoded,              \* the size of the image a fetch method opened (NoImage: none)
    written,              \* the size of the image it saved at album_art_loc
    proc                  \* the process: "main" (main.py:38 reached), "fetcher",
                          \*   "tracker" (the component built last), "running", "aborted"

vars == <<lock, client, srvQueue, pc, task, recRet, recAttempt, recLog, recOk,
          recDiscarded, attempt, cmdCalls, recCalls, probeFailed, inlineRec, result,
          current_song, last_queue_length, previous_song, song_state, polled,
          resolveCount, resolveFor, connection_attempts, ensState, last_song_path,
          retry_count, idleCalls, idleRec, idleWait, artifact, artAtPoll, strategy,
          resLog, fmtTried, fmtIn, coverIdx, coverSeen, resEnd, saveFailed, uiPending,
          uiSeen, input_buffer, display_input, inputPending, decisions, keyLock,
          legacy_buffer, legacy_value, line_number, song_path, addLog, queueShown, statusOk, snapshotTaken, exitCause, proc,
          decoded, written>>

sessionVars == <<lock, client, srvQueue>>
recVars == <<recRet, recAttempt, recLog, recOk, recDiscarded>>
execVars == <<attempt, cmdCalls, recCalls, probeFailed, inlineRec>>
pollVars == <<current_song, last_queue_length, previous_song, song_state, polled,
              resolveCount, resolveFor>>
loopVars == <<connection_attempts, ensState, last_song_path, retry_count>>
idleVars == <<idleCalls, idleRec, idleWait>>
artVars == <<artifact, artAtPoll, strategy, resLog, fmtTried, fmtIn, coverIdx,
             coverSeen, resEnd, saveFailed>>
uiVars == <<uiPending, uiSeen>>
keyVars == <<input_buffer, display_input, inputPending, decisions, keyLock,
             legacy_buffer, legacy_value>>
addVars == <<line_number, song_path, addLog>>
sinkVars == <<queueShown, statusOk, snapshotTaken>>
envVars == <<exitCause, proc>>
imageVars == <<decoded, written>>

\* ----------------------------------------------------------------- helpers
RECURSIVE Pow2(_)
Pow2(n) == IF n = 0 THEN 1 ELSE 2 * Pow2(n - 1)

Min(a, b) == IF a < b THEN a ELSE b
Max(a, b) == IF a < b THEN b ELSE a
Abs(a) == IF a < 0 THEN -a ELSE a
CeilDiv(a, b) == IF a % b = 0 THEN a \div b ELSE (a \div b) + 1

\* Mutant of WaitTime: the exponent counted from 0.
WaitTime_FromZero(k) == Min(Pow2(k - 1), BackoffCap)

\* mpd_client.py:158  wait_time = min(2 ** attempt, 10)
WaitTime(k) == Min(Pow2(k), BackoffCap)

\* The locations in which a thread is inside a call on self.client.
ReconnectPCs == {"rec_close", "rec_conn"}
CallPCs == {"ens_ping", "csu_status", "csu_currentsong", "res_readpicture", "idle",
            "exec_ping", "exec_cmd", "add_ping", "add_add", "add_find"}
           \cup ReconnectPCs

InCall(t) == pc[t] \in CallPCs
InReconnect(t) == pc[t] \in ReconnectPCs

\* A call on a fresh, unconnected MPDClient cannot succeed.
CallOutcomes == IF client = "up" THEN Outcomes ELSE Outcomes \ {"ok"}

\* No image: nothing was opened, nothing was saved.
NoImage == [w |-> 0, h |-> 0]

\* Widths and heights of the images a source of art holds: tiny ones, the
\* ones around the thumbnail box and its double, and a large one.
Sides == (1..3) \cup ((ThumbnailSize - 3)..(ThumbnailSize + 3))
         \cup ((2 * ThumbnailSize - 1)..(2 * ThumbnailSize + 1)) \cup {MaxSide}
Images == [w : Sides, h : Sides]

\* No value was dispatched.
NoValue == -1

\* A file without embedded pictures.
NoPictures == [f \in {"ID3", "FLAC", "MP4"} |-> "none"]

\* current_song.get("file"): None for None and for {}.
FileOf(song) == IF song \in Tracks THEN song ELSE NoSong

\* ------------------------------------------------- strings and digits
\* The decimal digits, as the characters of a Python str.
DigitChars == <<"0", "1", "2", "3", "4", "5", "6", "7", "8", "9">>

DigitValue(c) == CHOOSE v \in 0..9 : DigitChars[v + 1] = c

\* int(s) for a non-empty string of decimal digits.
RECURSIVE ParseInt(_)
ParseInt(s) ==
    IF s = <<>> THEN 0
    ELSE 10 * ParseInt(SubSeq(s, 1, Len(s) - 1)) + DigitValue(s[Len(s)])

\* str(n) for n >= 0.
RECURSIVE Str(_)
Str(n) ==
    IF n < 10 THEN <<DigitChars[n + 1]>>
    ELSE Str(n \div 10) \o <<DigitChars[(n % 10) + 1]>>

\* s.rjust(w): padded on the left with spaces, never truncated.
RECURSIVE Rjust(_, _)
Rjust(s, w) == IF Len(s) >= w THEN s ELSE Rjust(<<" ">> \o s, w)

\* s[-n:]
LastN(s, n) == IF Len(s) <= n THEN s ELSE SubSeq(s, Len(s) - n + 1, Len(s))

\* seq[i] with Python's index i: 0-based, a negative i counting from the
\* end; outside InPyRange the access raises IndexError.
InPyRange(seq, i) == -Len(seq) <= i /\ i < Len(seq)
PyIndex(seq, i) == IF i < 0 THEN seq[Len(seq) + i + 1] ELSE seq[i + 1]

\* The keys pressed in the model: with them the entries 0002 (a line of
\* the list), 0000 and 0099 (no line of the list) and 9999 (reserved) can be
\* typed, as can every other 4-digit value over these digits.
Keys == {"0", "2", "9"}

\* ------------------------------------------------ the track reference list
\* The stripped content of line k of the list file.
RefOfLine(k) == <<"ref", k>>
NoRef == <<>>

\* The file at SONG_LIST_PATH as one add_song_to_mpd finds it: absent,
\* present but not readable, or readable with n lines (ListUnread: the call
\* has not looked yet).
ListUnread == [state |-> "unread", lines |-> <<>>]
ListMissing == [state |-> "missing", lines |-> <<>>]
ListUnreadable == [state |-> "unreadable", lines |-> <<>>]
ListOf(n) == [state |-> "ok", lines |-> [k \in 1..n |-> RefOfLine(k)]]
SongLists == {ListMissing, ListUnreadable, ListOf(0), ListOf(MaxLines)}

\* add_song_to_mpd has done nothing yet.
NoAddLog == [list |-> ListUnread, calls |-> 0, incr |-> 0, displays |-> 0, notes |-> 0,
             added |-> NoRef]

\* ---------------------------------------------------------------- Init
\* The fields Tracker.__init__ (mpd_client.py:28-33) and the module globals
\* start with, and the history variables.
InitFields ==
    /\ lock = "free"
    /\ srvQueue \in 0..MaxQueue
    /\ task = [d \in Dispatchers |-> "none"]
    /\ recRet = [t \in Threads |-> "none"]
    /\ recAttempt = [t \in Threads |-> 0]
    /\ recLog = [t \in Threads |-> <<>>]
    /\ recOk = [t \in Threads |-> FALSE]
    /\ recDiscarded = [t \in Threads |-> FALSE]
    /\ attempt = [d \in Dispatchers |-> 0]
    /\ cmdCalls = [d \in Dispatchers |-> 0]
    /\ recCalls = [d \in Dispatchers |-> 0]
    /\ probeFailed = [d \in Dispatchers |-> FALSE]
    /\ inlineRec = [d \in Dispatchers |-> FALSE]
    /\ result = [d \in Dispatchers |-> "none"]
    /\ current_song = "None"
    /\ last_queue_length = 0
    /\ previous_song = "None"
    /\ song_state = -1
    /\ polled = FALSE
    /\ resolveCount = 0
    /\ resolveFor = NoSong
    /\ connection_attempts = 0
    /\ ensState = "none"
    /\ last_song_path = NoSong
    /\ retry_count = IdleRetries
    /\ idleCalls = 0
    /\ idleRec = "none"
    /\ idleWait = 0
    /\ artifact = "absent"
    /\ artAtPoll = "absent"
    /\ strategy = 0
    /\ resLog = <<>>
    /\ fmtTried = <<>>
    /\ fmtIn = NoPictures
    /\ coverIdx = 0
    /\ coverSeen = FALSE
    /\ resEnd = "none"
    /\ saveFailed = {}
    /\ uiSeen = "nothing"
    /\ input_buffer = <<>>
    /\ display_input = Rjust(<<>>, DisplayWidth)
    /\ inputPending = 0
    /\ decisions = <<>>
    /\ keyLock = "free"
    /\ legacy_buffer = <<>>
    /\ legacy_value = NoValue
    /\ line_number = [d \in Dispatchers |-> 0]
    /\ song_path = [d \in Dispatchers |-> NoRef]
    /\ addLog = [d \in Dispatchers |-> NoAddLog]
    /\ queueShown = <<>>
    /\ statusOk = FALSE
    /\ snapshotTaken = FALSE
    /\ exitCause = "none"
    /\ written = NoImage

\* Tracker.__init__ followed by AlbumArtApp.do_activate starting mpd_loop
\* and queueing the first update_album_art.
Init ==
    /\ InitFields
    /\ proc = "running"
    /\ client = "up"
    /\ pc = [t \in Threads |-> IF t = Watcher THEN "ens_ping" ELSE "off"]
    /\ uiPending = 1
    /\ decoded = NoImage

\* main() has reached line 38: no component is built, no thread started.
InitStartup ==
    /\ InitFields
    /\ proc = "main"
    /\ client = "new"
    /\ pc = [t \in Threads |-> "off"]
    /\ uiPending = 0
    /\ decoded = NoImage

\* ------------------------------------------------- Tracker.reconnect_mpd
\* Entering reconnect_mpd from call site `site`: the thread is now inside
\* client.close() / client.disconnect().
EnterReconnect(t, site) ==
    /\ pc' = [pc EXCEPT ![t] = "rec_close"]
    /\ recRet' = [recRet EXCEPT ![t] = site]
    /\ recAttempt' = [recAttempt EXCEPT ![t] = 0]
    /\ recLog' = [recLog EXCEPT ![t] = <<>>]
    /\ recOk' = [recOk EXCEPT ![t] = FALSE]
    /\ recDiscarded' = [recDiscarded EXCEPT ![t] = FALSE]

\* Leaving the code that handled reconnect_mpd's return value.
ClearReconnect(t) ==
    /\ recRet' = [recRet EXCEPT ![t] = "none"]
    /\ recAttempt' = [recAttempt EXCEPT ![t] = 0]
    /\ recLog' = [recLog EXCEPT ![t] = <<>>]
    /\ recOk' = [recOk EXCEPT ![t] = FALSE]
    /\ recDiscarded' = [recDiscarded EXCEPT ![t] = FALSE]

\* mpd_client.py:156-157  remaining = max_attempts - attempt; if remaining > 0
RecSleepsAfter(k) == RecMaxAttempts - k > 0

\* mpd_client.py:144  for attempt in range(1, max_attempts + 1)
RecHasNextAttempt(k) == k + 1 <= RecMaxAttempts

\* mpd_client.py:133-142: close and disconnect the old client (errors are
\* swallowed), then self.client = MPDClient().
RecClose(t) ==
    /\ pc[t] = "rec_close"
    /\ client' = "new"
    /\ recDiscarded' = [recDiscarded EXCEPT ![t] = TRUE]
    /\ recAttempt' = [recAttempt EXCEPT ![t] = 1]
    /\ pc' = [pc EXCEPT ![t] = "rec_conn"]
    /\ UNCHANGED <<lock, srvQueue, task, recRet, recLog, recOk, execVars, result,
                   pollVars, loopVars,
                   idleVars, artVars, uiVars,
                   keyVars, addVars, sinkVars, envVars, imageVars>>

\* mpd_client.py:144-166: one connect + password + ping attempt.
RecConnect(t) ==
    /\ pc[t] = "rec_conn"
    /\ \E ok \in BOOLEAN :
         IF ok
         THEN /\ client' = "up"
              /\ recOk' = [recOk EXCEPT ![t] = TRUE]
              /\ recLog' = [recLog EXCEPT ![t] = Append(@, [ok |-> TRUE, wait |-> 0])]
              /\ pc' = [pc EXCEPT ![t] = "rec_ret"]
              /\ UNCHANGED recAttempt
         ELSE /\ UNCHANGED client
              /\ recLog' = [recLog EXCEPT ![t] = Append(@,
                    [ok |-> FALSE,
                     wait |-> IF RecSleepsAfter(recAttempt[t])
                              THEN WaitTime(recAttempt[t]) ELSE 0])]
              /\ IF RecHasNextAttempt(recAttempt[t])
                 THEN /\ recAttempt' = [recAttempt EXCEPT ![t] = @ + 1]
                      /\ UNCHANGED <<pc, recOk>>
                 ELSE /\ recOk' = [recOk EXCEPT ![t] = FALSE]
                      /\ pc' = [pc EXCEPT ![t] = "rec_ret"]
                      /\ UNCHANGED recAttempt
    /\ UNCHANGED <<lock, srvQueue, task, recRet, recDiscarded, execVars, result,
                   pollVars, loopVars,
                   idleVars, artVars, uiVars,
                   keyVars, addVars, sinkVars, envVars, imageVars>>

\* ------------------------------------------ Tracker.execute_mpd_command
\* Mutants of ExecGivesUpOnProbe: never re-raise; re-raise on every attempt.
ExecGivesUpOnProbe_Never(a) == FALSE
ExecGivesUpOnProbe_Always(a) == TRUE

\* mpd_client.py:80  if attempt == max_attempts: raise
ExecGivesUpOnProbe(a) == a = ExecMaxAttempts

\* Mutants of ExecHandler: no retry after an error; the final error
\* propagates to the caller.
ExecHandler_NoRetry(a) == "fail"
ExecHandler_Reraises(a) == IF a < ExecMaxAttempts THEN "retry" ELSE "raised"

\* mpd_client.py:94-106: the handler of every exception that leaves the
\* with-block: reconnect and go on to the next attempt, or return None.
ExecHandler(a) == IF a < ExecMaxAttempts THEN "retry" ELSE "fail"

\* The effect of a successful transport command on the server's playlist.
QueueAfter(cmd, q) == IF cmd = "clear" THEN 0 ELSE q

\* An exception leaves the with-block of attempt `attempt[d]`: the lock is
\* released and the handler at mpd_client.py:94-106 runs, calling
\* reconnect_mpd() without the lock before the next attempt or returning
\* None after the last.
RaiseToHandler(d) ==
    /\ lock' = "free"
    /\ IF ExecHandler(attempt[d]) = "retry"
       THEN /\ EnterReconnect(d, "exec_handler")
            /\ recCalls' = [recCalls EXCEPT ![d] = @ + 1]
            /\ UNCHANGED result
       ELSE /\ result' = [result EXCEPT ![d] = ExecHandler(attempt[d])]
            /\ pc' = [pc EXCEPT ![d] = "exec_ret"]
            /\ UNCHANGED <<recVars, recCalls>>

\* Mutant of StartTransport: the command is run by the calling thread, which
\* takes the lock itself.
StartTransport_Inline(d, cmd) ==
    /\ pc[d] = "off"
    /\ lock = "free"
    /\ lock' = d
    /\ task' = [task EXCEPT ![d] = cmd]
    /\ attempt' = [attempt EXCEPT ![d] = 1]
    /\ pc' = [pc EXCEPT ![d] = "exec_ping"]
    /\ UNCHANGED <<client, srvQueue, recVars, cmdCalls, recCalls, probeFailed,
                   inlineRec, result, pollVars, loopVars,
                   idleVars, artVars, uiVars, addVars, sinkVars, envVars, imageVars>>

\* mpd_client.py:272-281, 343-361: threading.Thread(target=...).start() for
\* skip_song / stop_mpd / start_mpd / clear_queue, each of which calls
\* execute_mpd_command; thread d is the one started.
StartTransport(d, cmd) ==
    /\ pc[d] = "off"
    /\ task' = [task EXCEPT ![d] = cmd]
    /\ attempt' = [attempt EXCEPT ![d] = 1]
    /\ pc' = [pc EXCEPT ![d] = "exec_lock"]
    /\ UNCHANGED <<sessionVars, recVars, cmdCalls, recCalls, probeFailed, inlineRec,
                   result, pollVars, loopVars,
                   idleVars, artVars, uiVars, addVars, sinkVars, envVars, imageVars>>

\* Some completed entry is a reserved code: handle_input starts its thread.
SpawnTransport(d) ==
    /\ \E cmd \in TransportCommands : StartTransport(d, cmd)
    /\ UNCHANGED keyVars

\* mpd_client.py:73  with self.lock:
ExecAcquire(d) ==
    /\ pc[d] = "exec_lock"
    /\ lock = "free"
    /\ lock' = d
    /\ pc' = [pc EXCEPT ![d] = "exec_ping"]
    /\ UNCHANGED <<client, srvQueue, task, recVars, execVars, result, pollVars,
                   loopVars,
                   idleVars, artVars, uiVars,
                   keyVars, addVars, sinkVars, envVars, imageVars>>

\* mpd_client.py:77-86: the health probe.  A failed probe on the final
\* attempt re-raises; on an earlier attempt it starts the inline reconnect,
\* inside the with-block.
ExecPing(d) ==
    /\ pc[d] = "exec_ping"
    /\ \E o \in CallOutcomes :
         IF o = "ok"
         THEN /\ pc' = [pc EXCEPT ![d] = "exec_cmd"]
              /\ UNCHANGED <<lock, recVars, recCalls, probeFailed, inlineRec, result>>
         ELSE /\ probeFailed' = [probeFailed EXCEPT ![d] = TRUE]
              /\ IF ExecGivesUpOnProbe(attempt[d])
                 THEN /\ RaiseToHandler(d)
                      /\ UNCHANGED inlineRec
                 ELSE /\ EnterReconnect(d, "exec_inline")
                      /\ recCalls' = [recCalls EXCEPT ![d] = @ + 1]
                      /\ inlineRec' = [inlineRec EXCEPT ![d] = TRUE]
                      /\ UNCHANGED <<lock, result>>
    /\ UNCHANGED <<client, srvQueue, task, attempt, cmdCalls, pollVars, loopVars,
                   idleVars, artVars, uiVars,
                   keyVars, addVars, sinkVars, envVars, imageVars>>

\* Mutant of InlineReconnectContinues: reconnect_mpd's return value is
\* ignored.
InlineReconnectContinues_Always(ok) == TRUE

\* mpd_client.py:84  if not self.reconnect_mpd(): ... return None
InlineReconnectContinues(ok) == ok

\* mpd_client.py:84-86: the inline reconnect returned.
ExecAfterInlineReconnect(d) ==
    /\ pc[d] = "rec_ret"
    /\ recRet[d] = "exec_inline"
    /\ IF InlineReconnectContinues(recOk[d])
       THEN /\ pc' = [pc EXCEPT ![d] = "exec_cmd"]
            /\ UNCHANGED <<lock, result>>
       ELSE /\ lock' = "free"
            /\ result' = [result EXCEPT ![d] = "fail"]
            /\ pc' = [pc EXCEPT ![d] = "exec_ret"]
    /\ ClearReconnect(d)
    /\ UNCHANGED <<client, srvQueue, task, execVars, pollVars, loopVars,
                   idleVars, artVars, uiVars,
                   keyVars, addVars, sinkVars, envVars, imageVars>>

\* mpd_client.py:88-92: getattr + the command itself (an unknown command
\* name raises AttributeError at getattr); success returns the result.
ExecCommand(d) ==
    /\ pc[d] = "exec_cmd"
    /\ cmdCalls' = [cmdCalls EXCEPT ![d] = @ + 1]
    /\ \E o \in CallOutcomes :
         IF o = "ok"
         THEN /\ srvQueue' = QueueAfter(task[d], srvQueue)
              /\ lock' = "free"
              /\ result' = [result EXCEPT ![d] = "ok"]
              /\ pc' = [pc EXCEPT ![d] = "exec_ret"]
              /\ UNCHANGED <<recVars, recCalls>>
         ELSE /\ UNCHANGED srvQueue
              /\ RaiseToHandler(d)
    /\ UNCHANGED <<client, task, attempt, probeFailed, inlineRec, pollVars, loopVars,
                   idleVars, artVars, uiVars,
                   keyVars, addVars, sinkVars, envVars, imageVars>>

\* mpd_client.py:100 returned (its value is ignored); the for loop starts
\* the next attempt.
ExecAfterHandlerReconnect(d) ==
    /\ pc[d] = "rec_ret"
    /\ recRet[d] = "exec_handler"
    /\ attempt' = [attempt EXCEPT ![d] = @ + 1]
    /\ probeFailed' = [probeFailed EXCEPT ![d] = FALSE]
    /\ inlineRec' = [inlineRec EXCEPT ![d] = FALSE]
    /\ pc' = [pc EXCEPT ![d] = "exec_lock"]
    /\ ClearReconnect(d)
    /\ UNCHANGED <<sessionVars, task, cmdCalls, recCalls, result, pollVars,
                   loopVars,
                   idleVars, artVars, uiVars,
                   keyVars, addVars, sinkVars, envVars, imageVars>>

\* ---------------------------------------------- Tracker.add_song_to_mpd
\* mpd_client.py:283-287: threading.Thread(target=self.add_song_to_mpd,
\* args=(line_number,)).start(); thread d is the one started.  (No entry is
\* looked up once the tracked length has passed MaxQueue.)
StartAdd(d, k) ==
    /\ pc[d] = "off"
    /\ last_queue_length <= MaxQueue
    /\ task' = [task EXCEPT ![d] = "add"]
    /\ line_number' = [line_number EXCEPT ![d] = k]
    /\ pc' = [pc EXCEPT ![d] = "add_read"]
    /\ UNCHANGED <<sessionVars, recVars, execVars, result, pollVars, loopVars,
                   idleVars, artVars, uiVars, song_path, addLog, sinkVars, envVars, imageVars>>

\* Some completed entry is not a reserved code: handle_input starts
\* add_song_to_mpd with a value that is no line of the list (0) or one that
\* is a line of a list of MaxLines lines.
SpawnAdd(d) ==
    /\ \E k \in {0, MaxLines} : StartAdd(d, k)
    /\ UNCHANGED keyVars

\* Mutant of ValidLine: the lower limit is 0.
ValidLine_FromZero(k, n) == 0 <= k /\ k <= n

\* mpd_client.py:307  1 <= line_number <= len(lines)
ValidLine(k, n) == 1 <= k /\ k <= n

\* Mutant of LineIndex: the entry is used as a 0-based index.
LineIndex_ZeroBased(k) == k

\* mpd_client.py:311  lines[line_number - 1]
LineIndex(k) == k - 1

\* mpd_client.py:296-312: the list file, read afresh by every call, is
\* checked, read and indexed before any session call.  A missing file returns at 298, a failing open() or
\* readlines() (and an IndexError at 311) is logged at 340, an index outside
\* [1, len(lines)] returns at 309.
AddRead(d) ==
    /\ pc[d] = "add_read"
    /\ \E songList \in SongLists :
         /\ addLog' = [addLog EXCEPT ![d].list = songList]
         /\ IF /\ songList.state = "ok"
               /\ ValidLine(line_number[d], Len(songList.lines))
               /\ InPyRange(songList.lines, LineIndex(line_number[d]))
            THEN /\ song_path' = [song_path EXCEPT ![d] =
                                     PyIndex(songList.lines, LineIndex(line_number[d]))]
                 /\ pc' = [pc EXCEPT ![d] = "add_ping"]
                 /\ UNCHANGED result
            ELSE /\ pc' = [pc EXCEPT ![d] = "add_ret"]
                 /\ result' = [result EXCEPT ![d] = "rejected"]
                 /\ UNCHANGED song_path
    /\ UNCHANGED <<sessionVars, task, recVars, execVars, pollVars, loopVars,
                   idleVars, artVars, uiVars, keyVars, line_number, sinkVars, envVars, imageVars>>

\* mpd_client.py:315-321: ping, and reconnect_mpd on failure, both outside
\* the lock.
AddPing(d) ==
    /\ pc[d] = "add_ping"
    /\ addLog' = [addLog EXCEPT ![d].calls = @ + 1]
    /\ \E o \in CallOutcomes :
         IF o = "ok"
         THEN /\ pc' = [pc EXCEPT ![d] = "add_lock"]
              /\ UNCHANGED recVars
         ELSE EnterReconnect(d, "add")
    /\ UNCHANGED <<sessionVars, task, execVars, result, pollVars, loopVars,
                   idleVars, artVars, uiVars,
                   keyVars, line_number, song_path, sinkVars, envVars, imageVars>>

\* mpd_client.py:319-321
AddAfterReconnect(d) ==
    /\ pc[d] = "rec_ret"
    /\ recRet[d] = "add"
    /\ IF recOk[d]
       THEN /\ pc' = [pc EXCEPT ![d] = "add_lock"]
            /\ UNCHANGED result
       ELSE /\ pc' = [pc EXCEPT ![d] = "add_ret"]
            /\ result' = [result EXCEPT ![d] = "fail"]
    /\ ClearReconnect(d)
    /\ UNCHANGED <<sessionVars, task, execVars, pollVars, loopVars,
                   idleVars, artVars, uiVars,
                   keyVars, addVars, sinkVars, envVars, imageVars>>

\* mpd_client.py:324  with self.lock:
AddAcquire(d) ==
    /\ pc[d] = "add_lock"
    /\ lock = "free"
    /\ lock' = d
    /\ pc' = [pc EXCEPT ![d] = "add_add"]
    /\ UNCHANGED <<client, srvQueue, task, recVars, execVars, result, pollVars,
                   loopVars,
                   idleVars, artVars, uiVars,
                   keyVars, addVars, sinkVars, envVars, imageVars>>

\* Mutant of LengthAfterAdd: the length is incremented before the command
\* is known to be accepted.
LengthAfterAdd_Optimistic(accepted, n) == n + 1

\* mpd_client.py:326-327  self.client.add(song_path);
\*                        self.last_queue_length += 1
LengthAfterAdd(accepted, n) == IF accepted THEN n + 1 ELSE n

\* mpd_client.py:326-341: client.add, the increment and the queued
\* update_queue_display (331).  A CommandError is logged at 337, any other
\* exception at 340; both leave the with-block.  The server rejects an add
\* to a full playlist.
AddAdd(d) ==
    /\ pc[d] = "add_add"
    /\ \E o \in (IF srvQueue < MaxQueue THEN CallOutcomes ELSE CallOutcomes \ {"ok"}) :
         /\ last_queue_length' = LengthAfterAdd(o = "ok", last_queue_length)
         /\ addLog' = [addLog EXCEPT
                         ![d].calls = @ + 1,
                         ![d].incr = @ + LengthAfterAdd(o = "ok", last_queue_length)
                                       - last_queue_length,
                         ![d].displays = IF o = "ok" THEN @ + 1 ELSE @,
                         ![d].added = IF o = "ok" THEN song_path[d] ELSE @]
         /\ IF o = "ok"
            THEN /\ srvQueue' = srvQueue + 1
                 /\ pc' = [pc EXCEPT ![d] = "add_find"]
                 /\ UNCHANGED <<lock, result>>
            ELSE /\ lock' = "free"
                 /\ result' = [result EXCEPT ![d] = "fail"]
                 /\ pc' = [pc EXCEPT ![d] = "add_ret"]
                 /\ UNCHANGED srvQueue
    /\ UNCHANGED <<client, task, recVars, execVars, current_song, previous_song,
                   song_state, polled, resolveCount, resolveFor, loopVars,
                   idleVars, artVars, uiVars,
                   keyVars, line_number, song_path, sinkVars, envVars, imageVars>>

\* gtk_app.py:5, 36-37: the module global app_instance is set once the
\* application object is built.
AppInstance == proc = "running"

\* mpd_client.py:334-335, 363-387: client.find for the notification text
\* (its exceptions are swallowed), the notification, the end of the
\* with-block.
AddFind(d) ==
    /\ pc[d] = "add_find"
    /\ lock' = "free"
    /\ addLog' = [addLog EXCEPT ![d].calls = @ + 1,
                                ![d].notes = IF AppInstance THEN @ + 1 ELSE @]
    /\ result' = [result EXCEPT ![d] = "ok"]
    /\ pc' = [pc EXCEPT ![d] = "add_ret"]
    /\ UNCHANGED <<client, srvQueue, task, recVars, execVars, pollVars, loopVars,
                   idleVars, artVars, uiVars,
                   keyVars, line_number, song_path, sinkVars, envVars, imageVars>>

\* The dispatcher thread ends.
DispatchReturn(d) ==
    /\ pc[d] \in {"exec_ret", "add_ret"}
    /\ pc' = [pc EXCEPT ![d] = "off"]
    /\ task' = [task EXCEPT ![d] = "none"]
    /\ attempt' = [attempt EXCEPT ![d] = 0]
    /\ cmdCalls' = [cmdCalls EXCEPT ![d] = 0]
    /\ recCalls' = [recCalls EXCEPT ![d] = 0]
    /\ probeFailed' = [probeFailed EXCEPT ![d] = FALSE]
    /\ inlineRec' = [inlineRec EXCEPT ![d] = FALSE]
    /\ result' = [result EXCEPT ![d] = "none"]
    /\ line_number' = [line_number EXCEPT ![d] = 0]
    /\ song_path' = [song_path EXCEPT ![d] = NoRef]
    /\ addLog' = [addLog EXCEPT ![d] = NoAddLog]
    /\ UNCHANGED <<sessionVars, recVars, pollVars, loopVars,
                   idleVars, artVars, uiVars,
                   keyVars, sinkVars, envVars, imageVars>>

\* -------------------------------------------------- Tracker.handle_input
\* Mutant of BufferFull: a full buffer is never emptied.
BufferFull_Never(buf) == FALSE

\* mpd_client.py:245  if len(self.input_buffer) == 4
BufferFull(buf) == Len(buf) = BufferWidth

\* mpd_client.py:245-250: a full buffer is emptied, the key is appended and
\* the result trimmed to its last four characters.
AfterKey(buf, key) ==
    LastN((IF BufferFull(buf) THEN <<>> ELSE buf) \o <<key>>, BufferWidth)

\* Mutant of BufferAtReturn: the buffer is emptied once an entry has been
\* dispatched.
BufferAtReturn_Cleared(buf) == IF Len(buf) = BufferWidth THEN <<>> ELSE buf

\* mpd_client.py:255-289: no branch of the dispatch assigns input_buffer, so
\* handle_input returns with the buffer as line 250 left it.
BufferAtReturn(buf) == buf

\* Mutant of Complete: the entry is taken as complete one digit early too.
Complete_Early(buf) == Len(buf) >= BufferWidth - 1

\* mpd_client.py:255  if len(self.input_buffer) == 4
Complete(buf) == Len(buf) = BufferWidth

\* Mutant of ReservedCommand: no value is reserved.
ReservedCommand_None(n) == "none"

\* mpd_client.py:270-281, 343-361: the reserved values and the command their
\* thread passes to execute_mpd_command ("none": not reserved).
ReservedCommand(n) ==
    CASE n = 9999 -> "next"
      [] n = 8888 -> "stop"
      [] n = 7777 -> "play"
      [] n = 6666 -> "clear"
      [] OTHER -> "none"

\* combined2025-02-19b.py:229  (self.input_buffer + keychar)[-4:]
LegacyAfterKey(buf, key) == LastN(buf \o <<key>>, BufferWidth)

\* combined2025-02-19b.py:235-238: with four digits the value is taken,
\* the buffer reset and the value dispatched.
LegacyComplete(buf) == Len(buf) = BufferWidth
LegacyValue(buf) == IF LegacyComplete(buf) THEN ParseInt(buf) ELSE NoValue
LegacyAtReturn(buf) == IF LegacyComplete(buf) THEN <<>> ELSE buf

\* The model handles a key only while fewer than MaxPending display updates
\* are queued and, for the key that completes an entry, while thread d is
\* free to be the one started.
KeyBounded(key, d) ==
    /\ inputPending < MaxPending
    /\ Complete(AfterKey(input_buffer, key)) =>
         /\ pc[d] = "off"
         /\ ReservedCommand(ParseInt(AfterKey(input_buffer, key))) = "none" =>
              last_queue_length <= MaxQueue

\* gtk_app.py:240-244, mpd_client.py:239-289: handle_input for a digit key,
\* run by the GTK main loop.  It uses neither the lock nor the session; a
\* completed entry starts exactly one thread (d).
HandleInput(key, d) ==
    /\ proc = "running"
    /\ KeyBounded(key, d)
    /\ input_buffer' = BufferAtReturn(AfterKey(input_buffer, key))
    /\ inputPending' = inputPending + 1
    /\ keyLock' = lock
    /\ legacy_buffer' = LegacyAtReturn(LegacyAfterKey(legacy_buffer, key))
    /\ legacy_value' = LegacyValue(LegacyAfterKey(legacy_buffer, key))
    /\ UNCHANGED display_input
    /\ LET buf == AfterKey(input_buffer, key)
           n == ParseInt(buf)
       IN IF Complete(buf)
          THEN IF ReservedCommand(n) # "none"
               THEN /\ StartTransport(d, ReservedCommand(n))
                    /\ decisions' = <<[kind |-> "transport", cmd |-> ReservedCommand(n),
                                       line |-> 0]>>
               ELSE /\ StartAdd(d, n)
                    /\ decisions' = <<[kind |-> "lookup", cmd |-> "add", line |-> n]>>
          ELSE /\ decisions' = <<>>
               /\ UNCHANGED <<sessionVars, pc, task, recVars, execVars, result,
                              pollVars, loopVars, idleVars, artVars, uiVars, addVars,
                              sinkVars, envVars, imageVars>>

\* A digit key is pressed.
KeyPress(d) == \E key \in Keys : HandleInput(key, d)

\* mpd_client.py:229-237: a queued update_input_display runs on the GTK main
\* loop and prints the buffer as it is then.  (The display write itself is
\* taken to succeed.)
UiInput ==
    /\ inputPending > 0
    /\ inputPending' = inputPending - 1
    /\ display_input' = Rjust(input_buffer, DisplayWidth)
    /\ UNCHANGED <<sessionVars, pc, task, recVars, execVars, result, pollVars,
                   loopVars, idleVars, artVars, uiVars, input_buffer, decisions,
                   keyLock, legacy_buffer, legacy_value, addVars, sinkVars, envVars, imageVars>>

\* ------------------------------------------------------------ main.py:main
\* Mutant of TrackerBuilt: a failed first connect does not stop __init__.
TrackerBuilt_IgnoresConnect(connected, displays) == displays

\* mpd_client.py:36-41: __init__ raises unless connect() returned True and
\* _init_displays() did not raise.
TrackerBuilt(connected, displays) == connected /\ displays

\* main.py:41  Fetcher(config); an exception is handled at 51-53.
MainFetcher ==
    /\ proc = "main"
    /\ \E ok \in BOOLEAN :
         /\ proc' = IF ok THEN "fetcher" ELSE "aborted"
         /\ exitCause' = IF ok THEN "none" ELSE "fetcher"
    /\ UNCHANGED <<sessionVars, pc, task, recVars, execVars, result, pollVars,
                   loopVars, idleVars, artVars, uiVars, keyVars, addVars, sinkVars, imageVars>>

\* main.py:44-45, mpd_client.py:23-43, 108-126: Tracker(...) - the call
\* itself (it passes an argument __init__ does not declare), the first
\* connect and the displays.  Whatever is raised is handled at main.py:51-53
\* by sys.exit(1).
TrackerInit ==
    /\ proc = "fetcher"
    /\ \E called, connected, displays \in BOOLEAN :
         /\ client' = IF called /\ connected THEN "up" ELSE client
         /\ proc' = IF called /\ TrackerBuilt(connected, displays)
                    THEN "tracker" ELSE "aborted"
         /\ exitCause' = CASE ~called -> "call"
                           [] called /\ ~connected -> "connect"
                           [] called /\ connected /\ ~displays -> "displays"
                           [] OTHER -> "none"
    /\ UNCHANGED <<lock, srvQueue, pc, task, recVars, execVars, result, pollVars,
                   loopVars, idleVars, artVars, uiVars, keyVars, addVars, sinkVars, imageVars>>

\* main.py:48-50, gtk_app.py:27-46, 125-222: AlbumArtApp(...) and app.run:
\* do_activate connects on_key_press, starts mpd_loop on the watcher thread
\* and queues the first update_album_art.  An exception from the constructor
\* is handled at main.py:51-53.
AppRun ==
    /\ proc = "tracker"
    /\ \E ok \in BOOLEAN :
         IF ok
         THEN /\ proc' = "running"
              /\ pc' = [pc EXCEPT ![Watcher] = "ens_ping"]
              /\ uiPending' = 1
              /\ UNCHANGED exitCause
         ELSE /\ proc' = "aborted"
              /\ exitCause' = "app"
              /\ UNCHANGED <<pc, uiPending>>
    /\ UNCHANGED <<sessionVars, task, recVars, execVars, result, pollVars,
                   loopVars, idleVars, artVars, uiSeen, keyVars, addVars, sinkVars, imageVars>>

StartupStep == MainFetcher \/ TrackerInit \/ AppRun

\* ------------------------------------------------- AlbumArtApp.mpd_loop
\* The while-loop starts its next iteration: the watcher is inside the ping
\* of _ensure_mpd_connection.
NewCycle ==
    /\ pc' = [pc EXCEPT ![Watcher] = "ens_ping"]
    /\ ensState' = "none"
    /\ previous_song' = "None"
    /\ song_state' = -1
    /\ polled' = FALSE
    /\ resolveCount' = 0
    /\ resolveFor' = NoSong
    /\ retry_count' = IdleRetries

\* Mutant of EnsureResult: the counter is not reset on success.
EnsureResult_KeepsCount(connected, n) == n

\* gtk_app.py:418, 427, 431: the value _ensure_mpd_connection returns.
EnsureResult(connected, n) == IF connected THEN 0 ELSE n

\* gtk_app.py:415-425: the probe, made without the lock.
EnsurePing ==
    /\ pc[Watcher] = "ens_ping"
    /\ \E o \in CallOutcomes :
         IF o = "ok"
         THEN /\ connection_attempts' = EnsureResult(TRUE, connection_attempts)
              /\ ensState' = "Connected"
              /\ pc' = [pc EXCEPT ![Watcher] = "ens_ret"]
              /\ UNCHANGED recVars
         ELSE /\ connection_attempts' = connection_attempts + 1
              /\ EnterReconnect(Watcher, "ensure")
              /\ UNCHANGED ensState
    /\ UNCHANGED <<sessionVars, task, execVars, result, pollVars, last_song_path,
                   retry_count,
                   idleVars, artVars, uiVars,
                   keyVars, addVars, sinkVars, envVars, imageVars>>

\* gtk_app.py:425-431: reconnect_mpd returned.
EnsureAfterReconnect ==
    /\ pc[Watcher] = "rec_ret"
    /\ recRet[Watcher] = "ensure"
    /\ connection_attempts' = EnsureResult(recOk[Watcher], connection_attempts)
    /\ ensState' = IF recOk[Watcher] THEN "Connected" ELSE "Reconnecting"
    /\ pc' = [pc EXCEPT ![Watcher] = "ens_ret"]
    /\ UNCHANGED <<sessionVars, task, recVars, execVars, result, pollVars,
                   last_song_path, retry_count,
                   idleVars, artVars, uiVars,
                   keyVars, addVars, sinkVars, envVars, imageVars>>

\* gtk_app.py:395  if connection_attempts > max_connection_attempts
LoopSkipsPoll(n) == n > MaxConnectionAttempts

\* gtk_app.py:394-401: sleep 30 s and restart the cycle, or go on to
\* check_song_update.
LoopAfterEnsure ==
    /\ pc[Watcher] = "ens_ret"
    /\ IF LoopSkipsPoll(connection_attempts)
       THEN /\ connection_attempts' = ConnectionAttemptsAfterMax
            /\ NewCycle
       ELSE /\ pc' = [pc EXCEPT ![Watcher] = "csu_lock"]
            /\ UNCHANGED <<connection_attempts, ensState, previous_song, song_state,
                           polled, resolveCount, resolveFor, retry_count>>
    /\ ClearReconnect(Watcher)
    /\ UNCHANGED <<sessionVars, task, execVars, result, current_song,
                   last_queue_length, last_song_path,
                   idleVars, artVars, uiVars,
                   keyVars, addVars, sinkVars, envVars, imageVars>>

\* ---------------------------------------------- Tracker.check_song_update
\* mpd_client.py:171  with self.lock:
CsuAcquire ==
    /\ pc[Watcher] = "csu_lock"
    /\ lock = "free"
    /\ lock' = Watcher
    /\ pc' = [pc EXCEPT ![Watcher] = "csu_status"]
    /\ artAtPoll' = artifact
    /\ UNCHANGED <<client, srvQueue, task, recVars, execVars, result, pollVars,
                   loopVars, idleVars, artifact, strategy, resLog, fmtTried, fmtIn,
                   coverIdx, coverSeen, resEnd, saveFailed, uiVars,
                   keyVars, addVars, sinkVars, envVars, imageVars>>

\* Mutant of LengthAfterStatus: the reported length is added to the
\* tracked one.
LengthAfterStatus_Adds(n, reported) == n + reported

\* mpd_client.py:176-177  self.last_queue_length =
\*                            int(status.get("playlistlength", 0))
LengthAfterStatus(n, reported) == reported

\* mpd_client.py:175-181: the status query; any exception returns 3.
CsuStatus ==
    /\ pc[Watcher] = "csu_status"
    /\ \E o \in CallOutcomes :
         IF o = "ok"
         THEN /\ last_queue_length' = LengthAfterStatus(last_queue_length, srvQueue)
              /\ statusOk' = TRUE
              /\ snapshotTaken' = TRUE
              /\ pc' = [pc EXCEPT ![Watcher] = "csu_currentsong"]
              /\ UNCHANGED <<lock, song_state>>
         ELSE /\ lock' = "free"
              /\ song_state' = 3
              /\ pc' = [pc EXCEPT ![Watcher] = "csu_ret"]
              /\ UNCHANGED <<last_queue_length, statusOk, snapshotTaken>>
    /\ UNCHANGED <<client, srvQueue, task, recVars, execVars, result, current_song,
                   previous_song, polled, resolveCount, resolveFor, loopVars,
                   idleVars, artVars, uiVars,
                   keyVars, addVars, queueShown, envVars, imageVars>>

\* Mutant of SongChanged: a change is seen only from one track to another.
SongChanged_NeedsPrevious(prev, cur) ==
    cur \in Tracks /\ prev \in Tracks /\ prev # cur

\* Mutant of SongChanged: every poll that observes a track is a change.
SongChanged_AnyTrack(prev, cur) == cur \in Tracks

\* mpd_client.py:192  current_file and (not previous_song or
\*                    previous_song.get("file") != current_file)
SongChanged(prev, cur) == cur \in Tracks /\ (prev \notin Tracks \/ prev # cur)

\* mpd_client.py:197  return 2 if current_file else 1
UnchangedCode(cur) == IF cur \in Tracks THEN 2 ELSE 1

\* Mutant of QueueDisplay: the value is padded on the right.
QueueDisplay_Ljust(n) ==
    Str(n) \o [i \in 1..(DisplayWidth - Len(Str(n))) |-> " "]

\* mpd_client.py:222  str(self.last_queue_length).rjust(4)
QueueDisplay(n) == Rjust(Str(n), DisplayWidth)

\* mpd_client.py:183-207: the current-track query, update_queue_display
\* (188, 219-227, called directly on this thread) and then the comparison.
\* A ConnectionError or CommandError leaves the with-block and is handled
\* at 199-204 by reconnect_mpd(), without the lock; any other exception
\* returns 3.
CsuCurrentSong ==
    /\ pc[Watcher] = "csu_currentsong"
    /\ previous_song' = current_song
    /\ \E o \in CallOutcomes :
         CASE o = "ok" ->
                \E cur \in Tracks \cup {"Empty"} :
                  /\ current_song' = cur
                  /\ polled' = TRUE
                  /\ queueShown' = QueueDisplay(last_queue_length)
                  /\ IF SongChanged(current_song, cur)
                     THEN /\ resolveCount' = resolveCount + 1
                          /\ resolveFor' = FileOf(cur)
                          /\ pc' = [pc EXCEPT ![Watcher] = "csu_resolve"]
                          /\ UNCHANGED <<lock, song_state>>
                     ELSE /\ lock' = "free"
                          /\ song_state' = UnchangedCode(cur)
                          /\ pc' = [pc EXCEPT ![Watcher] = "csu_ret"]
                          /\ UNCHANGED <<resolveCount, resolveFor>>
                  /\ UNCHANGED recVars
           [] o \in {"conn", "cmd"} ->
                /\ lock' = "free"
                /\ EnterReconnect(Watcher, "csu")
                /\ UNCHANGED <<current_song, polled, resolveCount, resolveFor,
                               song_state, queueShown>>
           [] o = "other" ->
                /\ lock' = "free"
                /\ song_state' = 3
                /\ pc' = [pc EXCEPT ![Watcher] = "csu_ret"]
                /\ UNCHANGED <<current_song, polled, resolveCount, resolveFor,
                               recVars, queueShown>>
    /\ UNCHANGED <<client, srvQueue, task, execVars, result, last_queue_length,
                   loopVars,
                   idleVars, artVars, uiVars,
                   keyVars, addVars, statusOk, snapshotTaken, envVars, imageVars>>

\* ------------------------------------ Tracker._handle_new_song, Fetcher
\* What one source of art yields: nothing, bytes that Image.open or
\* thumbnail rejects, or a decodable image.
Candidates == {"none", "bad", "good"}

\* Mutant of FetchMethods: the file is read before the server is asked.
FetchMethods_MutagenFirst == <<"mutagen", "readpicture", "cover">>

\* fetcher.py:177-181  fetch_methods
FetchMethods == <<"readpicture", "mutagen", "cover">>

\* The running method is inside its call of the source it reads.
MethodPC(name) == CASE name = "readpicture" -> "res_readpicture"
                    [] name = "mutagen" -> "res_mutagen"
                    [] name = "cover" -> "res_cover"

ResolvePCs == {"csu_resolve", "res_ph_write", "res_readpicture", "res_mutagen",
               "res_cover", "res_write"}
InResolve == pc[Watcher] \in ResolvePCs

\* Mutant of ExtractionMethods: FLAC is tried before ID3.
ExtractionMethods_FlacFirst == <<"FLAC", "ID3", "MP4">>

\* fetcher.py:62-66  extraction_methods
ExtractionMethods == <<"ID3", "FLAC", "MP4">>

\* fetcher.py:72  if art_data:
FormatWins(data) == data # "none"

\* fetcher.py:68-79: the loop of mutagen_fetcher from method i on, for a file
\* whose embedded pictures are c (by format): the number of methods called
\* and the data returned.
RECURSIVE MutagenFrom(_, _)
MutagenFrom(c, i) ==
    IF i > Len(ExtractionMethods)
    THEN [tried |-> Len(ExtractionMethods), data |-> "none"]
    ELSE IF FormatWins(c[ExtractionMethods[i]])
         THEN [tried |-> i, data |-> c[ExtractionMethods[i]]]
         ELSE MutagenFrom(c, i + 1)

\* fetcher.py:56-79
MutagenFetcher(c) == MutagenFrom(c, 1)

\* mpd_client.py:215-217, 195: _handle_new_song returns (an exception of the
\* resolver is logged and dropped) and check_song_update returns 0, which
\* leaves the with-block.
\* Mutant of ResReturn: the resolver's end does not leave the with-block.
ResReturn_KeepsLock(how) ==
    /\ resEnd' = how
    /\ strategy' = 0
    /\ UNCHANGED lock
    /\ song_state' = 0
    /\ pc' = [pc EXCEPT ![Watcher] = "csu_ret"]

ResReturn(how) ==
    /\ resEnd' = how
    /\ strategy' = 0
    /\ lock' = "free"
    /\ song_state' = 0
    /\ pc' = [pc EXCEPT ![Watcher] = "csu_ret"]

\* Mutant of MethodStops: the loop goes on after a method returned True.
MethodStops_Never(ok) == FALSE

\* fetcher.py:187-189  if fetch_method(...): return
MethodStops(ok) == ok

\* fetcher.py:184-193: the running fetch method returned `ok`, having
\* obtained `got`: the loop returns, goes on to the next method, or ends
\* without art.
MethodReturned(got, ok) ==
    /\ resLog' = Append(resLog, [s |-> FetchMethods[strategy], got |-> got,
                                 ok |-> ok])
    /\ IF MethodStops(ok)
       THEN ResReturn("found")
       ELSE IF strategy < Len(FetchMethods)
            THEN /\ strategy' = strategy + 1
                 /\ pc' = [pc EXCEPT ![Watcher] = MethodPC(FetchMethods[strategy + 1])]
                 /\ UNCHANGED <<lock, song_state, resEnd>>
            ELSE ResReturn("notfound")

\* img.save(album_art_loc, "PNG") opens the file for writing, which empties
\* it, and then writes the encoded image.
BeginWrite(at) ==
    /\ artifact' = "partial"
    /\ pc' = [pc EXCEPT ![Watcher] = at]

\* Mutant of SaveFailureEscalates: a failed save is raised from every stage.
SaveFailureEscalates_Always(stage) == TRUE

\* fetcher.py:168-170 raises AlbumArtFetchError when the placeholder stage
\* fails; 226-228, 251-253 and 285-287 log a failure inside a fetch method
\* and return False or go on.
SaveFailureEscalates(stage) == stage = "placeholder"

\* A save of the running fetch method failed, before or after the file was
\* opened.
MethodSaveFailed ==
    /\ saveFailed' = saveFailed \cup {FetchMethods[strategy]}
    /\ IF SaveFailureEscalates(FetchMethods[strategy])
       THEN /\ ResReturn("raised")
            /\ UNCHANGED resLog
       ELSE IF FetchMethods[strategy] = "cover"
            THEN /\ pc' = [pc EXCEPT ![Watcher] = MethodPC("cover")]
                 /\ UNCHANGED <<strategy, resLog, resEnd, lock, song_state>>
            ELSE MethodReturned("good", FALSE)

\* fetcher.py:216-228, 242-253: the method opens and resizes what it obtained
\* and starts saving it; any exception makes it return False.
MethodSaves(got, openOk) ==
    IF got = "good"
    THEN IF openOk
         THEN /\ BeginWrite("res_write")
              /\ UNCHANGED <<strategy, resLog, resEnd, lock, song_state, saveFailed>>
         ELSE /\ MethodSaveFailed
              /\ UNCHANGED artifact
    ELSE /\ MethodReturned(got, FALSE)
         /\ UNCHANGED <<artifact, saveFailed>>

\* mpd_client.py:209-214 and fetcher.py:20-38, 149-170: _handle_new_song
\* builds a Fetcher and calls get_album_art, which first sets the
\* placeholder.  The constructor raises when it is called without its config
\* argument or cannot create the placeholder; get_album_art raises
\* AlbumArtFetchError when the placeholder cannot be created, opened or
\* saved.
CsuResolve ==
    /\ pc[Watcher] = "csu_resolve"
    /\ \E o \in {"ctor_raises", "placeholder_raises", "saves"} :
         CASE o = "ctor_raises" ->
                /\ ResReturn("noctor")
                /\ UNCHANGED <<artifact, saveFailed>>
           [] o = "placeholder_raises" ->
                /\ saveFailed' = saveFailed \cup {"placeholder"}
                /\ ResReturn("raised")
                /\ UNCHANGED artifact
           [] o = "saves" ->
                /\ BeginWrite("res_ph_write")
                /\ UNCHANGED <<lock, song_state, resEnd, strategy, saveFailed>>
    /\ UNCHANGED <<client, srvQueue, task, recVars, execVars, result, current_song,
                   last_queue_length, previous_song, polled, resolveCount,
                   resolveFor, loopVars, idleVars, artAtPoll, resLog, fmtTried,
                   fmtIn, coverIdx, coverSeen, uiVars,
                   keyVars, addVars, sinkVars, envVars, imageVars>>

\* Mutant of PlaceholderStage: a failed placeholder save is logged and the
\* fetch methods are tried all the same.
PlaceholderStage_Proceeds(ok, exists) == IF exists THEN "fetch" ELSE "return"

\* fetcher.py:168-174: what follows the save of the placeholder: the
\* exception of a failed save is raised as AlbumArtFetchError; a missing
\* song file ends the call; otherwise the fetch methods are tried.
PlaceholderStage(ok, exists) ==
    IF ~ok THEN "raise" ELSE IF exists THEN "fetch" ELSE "return"

\* fetcher.py:166-174: the save of the placeholder ends; then
\* os.path.exists(full_song_path), and the first fetch method is called.
ResPlaceholderWrite ==
    /\ pc[Watcher] = "res_ph_write"
    /\ \E ok \in BOOLEAN, exists \in BOOLEAN :
         /\ artifact' = IF ok THEN "placeholder" ELSE artifact
         /\ saveFailed' = IF ok THEN saveFailed ELSE saveFailed \cup {"placeholder"}
         /\ CASE PlaceholderStage(ok, exists) = "raise" -> ResReturn("raised")
              [] PlaceholderStage(ok, exists) = "return" -> ResReturn("nofile")
              [] PlaceholderStage(ok, exists) = "fetch" ->
                   /\ strategy' = 1
                   /\ pc' = [pc EXCEPT ![Watcher] = MethodPC(FetchMethods[1])]
                   /\ UNCHANGED <<lock, song_state, resEnd>>
    /\ UNCHANGED <<client, srvQueue, task, recVars, execVars, result, current_song,
                   last_queue_length, previous_song, polled, resolveCount,
                   resolveFor, loopVars, idleVars, artAtPoll, resLog, fmtTried,
                   fmtIn, coverIdx, coverSeen, uiVars,
                   keyVars, addVars, sinkVars, envVars, imageVars>>

\* fetcher.py:195-228: mpd_client.readpicture(song_file), a call on the
\* session made inside check_song_update's with-block.
ResReadPicture ==
    /\ pc[Watcher] = "res_readpicture"
    /\ \E o \in CallOutcomes, pic \in Candidates, openOk \in BOOLEAN :
         MethodSaves(IF o = "ok" THEN pic ELSE "none", openOk)
    /\ UNCHANGED <<client, srvQueue, task, recVars, execVars, result, current_song,
                   last_queue_length, previous_song, polled, resolveCount,
                   resolveFor, loopVars, idleVars, artAtPoll, fmtTried, fmtIn,
                   coverIdx, coverSeen, uiVars,
                   keyVars, addVars, sinkVars, envVars, imageVars>>

\* fetcher.py:230-253: mutagen_fetcher(full_song_path) on a file whose
\* embedded pictures are c.
ResMutagen ==
    /\ pc[Watcher] = "res_mutagen"
    /\ \E c \in [{"ID3", "FLAC", "MP4"} -> Candidates], openOk \in BOOLEAN :
         LET r == MutagenFetcher(c)
         IN  /\ fmtIn' = c
             /\ fmtTried' = SubSeq(ExtractionMethods, 1, r.tried)
             /\ MethodSaves(r.data, openOk)
    /\ UNCHANGED <<client, srvQueue, task, recVars, execVars, result, current_song,
                   last_queue_length, previous_song, polled, resolveCount,
                   resolveFor, loopVars, idleVars, artAtPoll, coverIdx, coverSeen,
                   uiVars,
                   keyVars, addVars, sinkVars, envVars, imageVars>>

\* fetcher.py:255-293: the loop over cover_formats examines its next entry:
\* a file that does not exist is skipped, one that cannot be opened or saved
\* is logged and skipped, and the first one saved ends the method.
ResCover ==
    /\ pc[Watcher] = "res_cover"
    /\ IF coverIdx = MaxCovers
       THEN /\ MethodReturned(IF coverSeen THEN "bad" ELSE "none", FALSE)
            /\ UNCHANGED <<artifact, coverIdx, coverSeen, saveFailed>>
       ELSE \E c \in Candidates, openOk \in BOOLEAN :
              /\ coverIdx' = coverIdx + 1
              /\ coverSeen' = (coverSeen \/ c # "none")
              /\ IF c = "good"
                 THEN IF openOk
                      THEN /\ BeginWrite("res_write")
                           /\ UNCHANGED <<strategy, resLog, resEnd, lock,
                                          song_state, saveFailed>>
                      ELSE /\ MethodSaveFailed
                           /\ UNCHANGED artifact
                 ELSE UNCHANGED <<artifact, pc, strategy, resLog, resEnd, lock,
                                  song_state, saveFailed>>
    /\ UNCHANGED <<client, srvQueue, task, recVars, execVars, result, current_song,
                   last_queue_length, previous_song, polled, resolveCount,
                   resolveFor, loopVars, idleVars, artAtPoll, fmtTried, fmtIn,
                   uiVars,
                   keyVars, addVars, sinkVars, envVars, imageVars>>

\* fetcher.py:220-228, 245-253, 282-287: a save that a fetch method started
\* ends.  A completed save leaves the track's image in the file and the
\* method returns True; a failed one leaves the file as far as it was
\* written.
ResWrite ==
    /\ pc[Watcher] = "res_write"
    /\ \E ok \in BOOLEAN :
         IF ok
         THEN /\ artifact' = resolveFor
              /\ MethodReturned("good", TRUE)
              /\ UNCHANGED saveFailed
         ELSE /\ MethodSaveFailed
              /\ UNCHANGED artifact
    /\ UNCHANGED <<client, srvQueue, task, recVars, execVars, result, current_song,
                   last_queue_length, previous_song, polled, resolveCount,
                   resolveFor, loopVars, idleVars, artAtPoll, fmtTried, fmtIn,
                   coverIdx, coverSeen, uiVars,
                   keyVars, addVars, sinkVars, envVars, imageVars>>

\* mpd_client.py:201-204
CsuAfterReconnect ==
    /\ pc[Watcher] = "rec_ret"
    /\ recRet[Watcher] = "csu"
    /\ song_state' = IF recOk[Watcher] THEN 2 ELSE 3
    /\ pc' = [pc EXCEPT ![Watcher] = "csu_ret"]
    /\ ClearReconnect(Watcher)
    /\ UNCHANGED <<sessionVars, task, execVars, result, current_song,
                   last_queue_length, previous_song, polled, resolveCount,
                   resolveFor, loopVars,
                   idleVars, artVars, uiVars,
                   keyVars, addVars, sinkVars, envVars, imageVars>>

\* Mutant of RefreshDue: the refresh does not depend on the poll's result.
RefreshDue_AnyState(state, path, last) == path # last

\* gtk_app.py:436  if song_state == 0 and current_song_path != last_song_path
RefreshDue(state, path, last) == state = 0 /\ path # last

\* gtk_app.py:404, 433-449 (_handle_song_change: a due refresh queues
\* update_album_art with GLib.idle_add; queued callbacks beyond MaxPending
\* are merged), then 407 enters _wait_for_mpd_events with retry_count = 3.
LoopAfterPoll ==
    /\ pc[Watcher] = "csu_ret"
    /\ last_song_path' =
         IF RefreshDue(song_state, FileOf(current_song), last_song_path)
         THEN FileOf(current_song) ELSE last_song_path
    /\ uiPending' =
         IF RefreshDue(song_state, FileOf(current_song), last_song_path)
         THEN Min(uiPending + 1, MaxPending) ELSE uiPending
    /\ artAtPoll' = "absent"
    /\ resLog' = <<>>
    /\ fmtTried' = <<>>
    /\ fmtIn' = NoPictures
    /\ coverIdx' = 0
    /\ coverSeen' = FALSE
    /\ resEnd' = "none"
    /\ saveFailed' = {}
    /\ retry_count' = IdleRetries
    /\ pc' = [pc EXCEPT ![Watcher] = "idle"]
    /\ previous_song' = "None"
    /\ song_state' = -1
    /\ polled' = FALSE
    /\ resolveCount' = 0
    /\ resolveFor' = NoSong
    /\ queueShown' = <<>>
    /\ statusOk' = FALSE
    /\ UNCHANGED snapshotTaken
    /\ UNCHANGED <<sessionVars, task, recVars, execVars, result, current_song,
                   last_queue_length, connection_attempts, ensState, idleVars,
                   artifact, strategy, uiSeen,
                   keyVars, addVars, envVars, imageVars>>

\* ------------------------------------- AlbumArtApp._wait_for_mpd_events
\* Mutant of RetryAfterFailure: a failed idle call does not use up a retry.
RetryAfterFailure_Kept(n) == n

\* gtk_app.py:466, 482  retry_count -= 1
RetryAfterFailure(n) == n - 1

\* gtk_app.py:469  if retry_count > 0  (after the decrement)
IdleReconnects(n) == n > 0

\* Mutant of IdleDelayAfterReconnect: sleep also after a successful reconnect.
IdleDelayAfterReconnect_Always(ok) == IdleRetryDelay

\* gtk_app.py:471-478: `continue` skips the sleep when reconnect_mpd()
\* succeeded; otherwise time.sleep(1).
IdleDelayAfterReconnect(ok) == IF ok THEN 0 ELSE IdleRetryDelay

\* gtk_app.py:455, 485-488: the while-loop ends when retry_count reaches 0,
\* and the function then sleeps 2 s more and returns.
IdleExhausted(d) ==
    /\ pc' = [pc EXCEPT ![Watcher] = "idle_ret"]
    /\ idleWait' = d + IdleExhaustedDelay

\* gtk_app.py:455-488: client.idle("player"), made without the lock.  Success
\* returns at once.  A ConnectionError uses up a retry and, with retries
\* left, starts reconnect_mpd; any other exception uses up a retry and
\* sleeps 1 s.
IdleCall ==
    /\ pc[Watcher] = "idle"
    /\ idleCalls' = Min(idleCalls + 1, IdleRetries + 1)
    /\ \E o \in CallOutcomes :
         CASE o = "ok" ->
                /\ retry_count' = IdleRetries
                /\ idleRec' = "none"
                /\ idleWait' = 0
                /\ pc' = [pc EXCEPT ![Watcher] = "idle_ret"]
                /\ UNCHANGED recVars
           [] o = "conn" ->
                /\ retry_count' = RetryAfterFailure(retry_count)
                /\ IF IdleReconnects(retry_count')
                   THEN /\ EnterReconnect(Watcher, "idle")
                        /\ idleWait' = 0
                        /\ UNCHANGED idleRec
                   ELSE /\ idleRec' = "skipped"
                        /\ IF retry_count' > 0
                           THEN /\ idleWait' = IdleRetryDelay
                                /\ UNCHANGED pc
                           ELSE IdleExhausted(IdleRetryDelay)
                        /\ UNCHANGED recVars
           [] o \in {"cmd", "other"} ->
                /\ retry_count' = RetryAfterFailure(retry_count)
                /\ idleRec' = "none"
                /\ IF retry_count' > 0
                   THEN /\ idleWait' = IdleRetryDelay
                        /\ UNCHANGED pc
                   ELSE IdleExhausted(IdleRetryDelay)
                /\ UNCHANGED recVars
    /\ UNCHANGED <<sessionVars, task, execVars, result, pollVars,
                   connection_attempts, ensState, last_song_path, artVars, uiVars,
                   keyVars, addVars, sinkVars, envVars, imageVars>>

\* gtk_app.py:471-478: after the inline reconnect the loop calls idle again,
\* at once if it succeeded and after a 1 s sleep if it failed.
IdleAfterReconnect ==
    /\ pc[Watcher] = "rec_ret"
    /\ recRet[Watcher] = "idle"
    /\ idleRec' = IF recOk[Watcher] THEN "ok" ELSE "failed"
    /\ IF retry_count > 0
       THEN /\ idleWait' = IdleDelayAfterReconnect(recOk[Watcher])
            /\ pc' = [pc EXCEPT ![Watcher] = "idle"]
       ELSE IdleExhausted(IdleDelayAfterReconnect(recOk[Watcher]))
    /\ ClearReconnect(Watcher)
    /\ UNCHANGED <<sessionVars, task, execVars, result, pollVars, loopVars,
                   idleCalls, artVars, uiVars,
                   keyVars, addVars, sinkVars, envVars, imageVars>>

\* gtk_app.py:462, 488 and 391: _wait_for_mpd_events returns and the
\* while-loop of mpd_loop starts its next iteration.
IdleReturn ==
    /\ pc[Watcher] = "idle_ret"
    /\ NewCycle
    /\ idleCalls' = 0
    /\ idleRec' = "none"
    /\ idleWait' = 0
    /\ UNCHANGED <<sessionVars, task, recVars, execVars, result, current_song,
                   last_queue_length, connection_attempts, last_song_path,
                   artVars, uiVars,
                   keyVars, addVars, sinkVars, envVars, imageVars>>

\* --------------------------------------------- img.thumbnail((500, 500))
\* PIL.Image.Image.thumbnail's round_aspect(y * aspect, key = |aspect -
\* n / y|) for the width of an image of w x h in a box of height y: of the
\* floor and the ceiling of y * w / h the one whose ratio to y is nearer to
\* w / h, and at least 1.  The keys are floating-point numbers: when the
\* two are equally near, rounding error decides, so either may result.
Nearer(f, c, df, dc) ==
    {IF n < 1 THEN 1 ELSE n :
        n \in (IF df < dc THEN {f} ELSE IF dc < df THEN {c} ELSE {f, c})}

RoundWidth(w, h, y) ==
    LET f == (y * w) \div h
        c == CeilDiv(y * w, h)
    IN  Nearer(f, c, Abs(y * w - f * h), Abs(y * w - c * h))

\* round_aspect(x / aspect, key = 0 if n == 0 else |aspect - x / n|) for
\* the height in a box of width x.
RoundHeight(w, h, x) ==
    LET f == (x * h) \div w
        c == CeilDiv(x * h, w)
    IN  IF f = 0
        THEN {1}
        ELSE Nearer(f, c, Abs(w * f - x * h) * c, Abs(w * c - x * h) * f)

\* Mutant of FitsBox: an image inside the box is scaled as well.
FitsBox_Never(w, h) == FALSE

\* thumbnail: if x >= self.width and y >= self.height: return
FitsBox(w, h) == ThumbnailSize >= w /\ ThumbnailSize >= h

\* fetcher.py:219, 244, 281  img.thumbnail((500, 500)): the sizes the image
\* can have afterwards.  x / y >= aspect, for the square box, is h >= w.
Thumbnail(img) ==
    IF FitsBox(img.w, img.h)
    THEN {img}
    ELSE IF img.h >= img.w
         THEN {[w |-> x, h |-> ThumbnailSize] :
                  x \in RoundWidth(img.w, img.h, ThumbnailSize)}
         ELSE {[w |-> ThumbnailSize, h |-> y] :
                  y \in RoundHeight(img.w, img.h, ThumbnailSize)}

\* fetcher.py:218-220, 243-245, 280-282: the opened image is made a
\* thumbnail and saved as PNG at album_art_loc.
ThumbnailSave ==
    /\ decoded # NoImage
    /\ written = NoImage
    /\ written' \in Thumbnail(decoded)
    /\ UNCHANGED <<sessionVars, pc, task, recVars, execVars, result, pollVars,
                   loopVars, idleVars, artVars, uiVars, keyVars, addVars,
                   sinkVars, envVars, decoded>>

\* ------------------------------------------ AlbumArtApp.update_album_art
\* gtk_app.py:251-271: the GTK main loop runs a queued update_album_art,
\* which loads the file at ALBUM_ART_LOC as it is at that moment (the
\* fallback image when the file does not exist or cannot be loaded).
UiLoad ==
    /\ uiPending > 0
    /\ uiPending' = uiPending - 1
    /\ uiSeen' = artifact
    /\ UNCHANGED <<sessionVars, pc, task, recVars, execVars, result, pollVars,
                   loopVars, idleVars, artVars,
                   keyVars, addVars, sinkVars, envVars, imageVars>>

\* ------------------------------------------------------- specification
WatcherStep ==
    \/ EnsurePing
    \/ EnsureAfterReconnect
    \/ LoopAfterEnsure
    \/ CsuAcquire
    \/ CsuStatus
    \/ CsuCurrentSong
    \/ CsuResolve
    \/ ResPlaceholderWrite
    \/ ResReadPicture
    \/ ResMutagen
    \/ ResCover
    \/ ResWrite
    \/ CsuAfterReconnect
    \/ LoopAfterPoll
    \/ IdleCall
    \/ IdleAfterReconnect
    \/ IdleReturn

\* The steps of a started dispatcher thread.
DispatcherRun(d) ==
    \/ ExecAcquire(d)
    \/ ExecPing(d)
    \/ ExecAfterInlineReconnect(d)
    \/ ExecCommand(d)
    \/ ExecAfterHandlerReconnect(d)
    \/ AddRead(d)
    \/ AddPing(d)
    \/ AddAfterReconnect(d)
    \/ AddAcquire(d)
    \/ AddAdd(d)
    \/ AddFind(d)
    \/ DispatchReturn(d)

DispatcherStep(d) ==
    \/ SpawnTransport(d)
    \/ SpawnAdd(d)
    \/ DispatcherRun(d)

ReconnectStep(t) == RecClose(t) \/ RecConnect(t)

\* The watcher with one dispatcher thread at a time, and the GTK main loop.
Next ==
    \/ WatcherStep
    \/ DispatcherStep("d1")
    \/ \E t \in {Watcher, "d1"} : ReconnectStep(t)
    \/ UiLoad

Spec == Init /\ [][Next]_vars

\* The watcher alone: no key is ever entered.
NextWatcher ==
    \/ WatcherStep
    \/ ReconnectStep(Watcher)

SpecWatcher == Init /\ [][NextWatcher]_vars

\* The watcher thread is always scheduled again: it runs for the lifetime of
\* the process.
SpecWatcherFair == Init /\ [][NextWatcher]_vars /\ WF_vars(NextWatcher)

\* The watcher and the GTK main loop, which runs the queued callbacks.
NextArt ==
    \/ NextWatcher
    \/ UiLoad

SpecArt == Init /\ [][NextArt]_vars

\* mpd_client.py:176-177: the playlist whose length status() reports is the
\* server's; another client of the server changes it at any time.
ServerQueueChange ==
    /\ \E n \in 0..MaxQueue :
         /\ n # srvQueue
         /\ srvQueue' = n
    /\ UNCHANGED <<lock, client, pc, task, recVars, execVars, result, pollVars,
                   loopVars, idleVars, artVars, uiVars, keyVars, addVars,
                   sinkVars, envVars, imageVars>>

\* The watcher polling a server whose playlist other clients change.
NextPoll ==
    \/ NextWatcher
    \/ ServerQueueChange

SpecPoll == Init /\ [][NextPoll]_vars

\* The dispatcher threads, while the watcher is not scheduled.
NextDispatch ==
    \/ \E d \in Dispatchers : DispatcherStep(d)
    \/ \E d \in Dispatchers : ReconnectStep(d)

SpecDispatch == Init /\ [][NextDispatch]_vars

\* One dispatcher thread that is always scheduled again: a started thread
\* runs until its function returns.
NextExec ==
    \/ DispatcherStep("d1")
    \/ ReconnectStep("d1")

SpecExecFair == Init /\ [][NextExec]_vars /\ WF_vars(NextExec)

\* The GTK main loop handling digit keys and its queued display updates,
\* and one dispatcher thread at a time.
NextInput ==
    \/ KeyPress("d1")
    \/ UiInput
    \/ DispatcherRun("d1")
    \/ ReconnectStep("d1")

SpecInput == Init /\ [][NextInput]_vars

\* main() from line 38 on, then the running process as in SpecInput (the
\* started watcher thread is not scheduled).
NextStartup ==
    \/ StartupStep
    \/ NextInput

SpecStartup == InitStartup /\ [][NextStartup]_vars

\* One image of any of the sizes, opened by a fetch method of the running
\* process, on its way through thumbnail and save.
InitResize ==
    /\ InitFields
    /\ proc = "running"
    /\ client = "up"
    /\ pc = [t \in Threads |-> IF t = Watcher THEN "res_readpicture" ELSE "off"]
    /\ uiPending = 1
    /\ decoded \in Images

NextResize == ThumbnailSave

SpecResize == InitResize /\ [][NextResize]_vars

\* fetcher.py:172-174: a resolution for a track whose file is not under
\* music_library ends after the placeholder stage, still under the lock.
ResNoSongFile == ResPlaceholderWrite /\ strategy' = 0

\* The watcher on a server whose tracks have no file under music_library.
WatcherStepNoFile ==
    \/ EnsurePing
    \/ EnsureAfterReconnect
    \/ LoopAfterEnsure
    \/ CsuAcquire
    \/ CsuStatus
    \/ CsuCurrentSong
    \/ CsuResolve
    \/ ResNoSongFile
    \/ CsuAfterReconnect
    \/ LoopAfterPoll
    \/ IdleCall
    \/ IdleAfterReconnect
    \/ IdleReturn

\* The steps of a dispatcher thread started for add_song_to_mpd.
AddRun(d) ==
    \/ AddRead(d)
    \/ AddPing(d)
    \/ AddAfterReconnect(d)
    \/ AddAcquire(d)
    \/ AddAdd(d)
    \/ AddFind(d)
    \/ DispatchReturn(d)

\* The watcher's poll cycles interleaved with enqueue tasks, one dispatcher
\* thread at a time; no transport command is entered and no other client
\* changes the playlist.
NextQueue ==
    \/ WatcherStepNoFile
    \/ SpawnAdd("d1")
    \/ AddRun("d1")
    \/ \E t \in {Watcher, "d1"} : ReconnectStep(t)

SpecQueue == Init /\ [][NextQueue]_vars

\* ================================================================ claims

\* C1 (stated as claimed; the code violates it): at most one thread is
\* inside a call on the session at any time.
C1_SessionCallsSerialized ==
    \A s, t \in Threads : (InCall(s) /\ InCall(t)) => s = t

\* C2 (stated as claimed; the code violates it): a thread that is running
\* the reconnect sequence holds the session lock, and no other thread is
\* inside a session call meanwhile.
C2_ReconnectOnlyUnderLock ==
    \A t \in Threads :
        InReconnect(t) =>
            /\ lock = t
            /\ \A s \in Threads \ {t} : ~InCall(s)

\* C3: a call of execute_mpd_command invokes the command at most twice, runs
\* at most two reconnect sequences of at most three connect attempts each,
\* and, once started, returns.
C3_ExecuteTerminates ==
    /\ [](\A d \in Dispatchers :
            /\ attempt[d] <= 2
            /\ cmdCalls[d] <= 2
            /\ recCalls[d] <= 2
            /\ Len(recLog[d]) <= 3
            /\ recAttempt[d] <= 3)
    /\ (pc["d1"] = "exec_lock") ~> (pc["d1"] = "exec_ret")

\* C3 witness: an execute that used its whole budget: two command
\* invocations and two reconnect sequences.
C3_Witness ==
    /\ pc["d1"] = "exec_ret"
    /\ cmdCalls["d1"] = 2
    /\ recCalls["d1"] = 2

\* C4 (as claimed): execute returns a failure only after both attempts.
C4_FailureOnlyAfterBothAttempts ==
    \A d \in Dispatchers :
        (pc[d] = "exec_ret" /\ result[d] = "fail") => attempt[d] = 2

\* C4 (amended): execute returns a failure either in the second attempt, or
\* in the first attempt when the probe failed and the inline reconnect
\* failed, before any command invocation.
C4_FailureAfterBudgetOrFailedReconnect ==
    \A d \in Dispatchers :
        (pc[d] = "exec_ret" /\ result[d] = "fail") =>
            \/ attempt[d] = 2
            \/ /\ attempt[d] = 1
               /\ probeFailed[d]
               /\ inlineRec[d]
               /\ cmdCalls[d] = 0

\* C4 witness: a failure returned in the first attempt.
C4_Witness ==
    \E d \in Dispatchers :
        pc[d] = "exec_ret" /\ result[d] = "fail" /\ attempt[d] = 1

\* C5: execute_mpd_command returns a result or a failure, never an
\* exception, and its thread does not hold the lock when it returns.
C5_ExecuteNeverRaises ==
    \A d \in Dispatchers :
        /\ result[d] # "raised"
        /\ pc[d] = "exec_ret" => (result[d] \in {"ok", "fail"} /\ lock # d)

\* C5 witness: the probe of the final attempt failed (the re-raise at line
\* 81) and execute has returned.
C5_Witness ==
    \E d \in Dispatchers :
        pc[d] = "exec_ret" /\ attempt[d] = 2 /\ probeFailed[d]

\* C6 (as claimed): in every attempt a failed probe is followed by a
\* reconnect in that attempt.
C6_FailedProbeAlwaysReconnects ==
    \A d \in Dispatchers : probeFailed[d] => inlineRec[d]

\* C6 (amended): a failed probe is followed by an inline reconnect in the
\* first attempt; in the second attempt it ends execute with a failure,
\* without a reconnect and without the command.
C6_FailedProbeReconnectsInFirstAttempt ==
    \A d \in Dispatchers :
        probeFailed[d] =>
            IF attempt[d] = 1
            THEN inlineRec[d]
            ELSE /\ ~inlineRec[d]
                 /\ pc[d] = "exec_ret"
                 /\ result[d] = "fail"
                 /\ cmdCalls[d] = 1

\* C6 witness: the inline reconnect after a failed first probe succeeded and
\* the command is about to run.
C6_Witness ==
    \E d \in Dispatchers :
        pc[d] = "exec_cmd" /\ probeFailed[d] /\ inlineRec[d] /\ attempt[d] = 1

\* C7: whenever _ensure_mpd_connection ended connected the counter is 0, in
\* particular after a reconnect sequence that succeeded.
C7_ConnectedResetsCounter ==
    /\ ensState = "Connected" => connection_attempts = 0
    /\ (pc[Watcher] = "ens_ret" /\ recRet[Watcher] = "ensure" /\ recOk[Watcher]) =>
           (ensState = "Connected" /\ connection_attempts = 0)

\* C7 witness: the probe failed, two connect attempts failed, the third
\* succeeded, and the watcher has the result.
C7_Witness ==
    /\ pc[Watcher] = "ens_ret"
    /\ recRet[Watcher] = "ensure"
    /\ Len(recLog[Watcher]) = 3
    /\ recLog[Watcher][3].ok
    /\ ensState = "Connected"

\* C8: a reconnect sequence discards the session first, makes at most three
\* attempts, stops at the first success, sleeps min(2^i, 10) s after the
\* failed attempt i when another attempt follows and not after the last one,
\* and returns False exactly when all attempts failed.
C8_ReconnectSequence ==
    \A t \in Threads :
        LET log == recLog[t]
            n == Len(log)
        IN  /\ n <= 3
            /\ n > 0 => recDiscarded[t]
            /\ pc[t] = "rec_conn" => (recDiscarded[t] /\ n = recAttempt[t] - 1)
            /\ \A i \in 1..n :
                  i < n => /\ ~log[i].ok
                           /\ log[i].wait = (IF 2^i < 10 THEN 2^i ELSE 10)
            /\ pc[t] = "rec_conn" =>
                  \A i \in 1..n :
                      ~log[i].ok /\ log[i].wait = (IF 2^i < 10 THEN 2^i ELSE 10)
            /\ pc[t] = "rec_ret" =>
                  /\ n >= 1
                  /\ log[n].wait = 0
                  /\ recOk[t] = log[n].ok
                  /\ ~recOk[t] => n = 3

\* C8 witness: a sequence that failed twice, slept 2 s and 4 s, and
\* succeeded on the third attempt.
C8_Witness ==
    \E t \in Threads :
        /\ pc[t] = "rec_ret"
        /\ recOk[t]
        /\ Len(recLog[t]) = 3
        /\ recLog[t][1].wait = 2
        /\ recLog[t][2].wait = 4

\* C9 (stated as claimed; the code violates it): the watcher polls and waits
\* only in a cycle whose _ensure_mpd_connection ended connected.
C9_NoPollUnlessConnected ==
    pc[Watcher] \in {"csu_lock", "csu_status", "csu_currentsong", "csu_ret", "idle"}
                     \cup ResolvePCs
        => ensState = "Connected"

\* The poll observed a track whose reference differs from the one observed
\* before.
C10_Differ ==
    /\ FileOf(current_song) # NoSong
    /\ FileOf(current_song) # FileOf(previous_song)

\* C10: a poll that observes a different track runs the resolver for the new
\* reference exactly once, inside check_song_update (under the watcher's
\* lock) and before check_song_update returns to the loop.
C10_ChangeResolvesOnce ==
    /\ resolveCount <= 1
    /\ InResolve =>
           /\ lock = Watcher
           /\ resolveCount = 1
           /\ resolveFor = FileOf(current_song)
    /\ (pc[Watcher] = "csu_ret" /\ polled /\ C10_Differ) =>
           /\ resolveCount = 1
           /\ resolveFor = FileOf(current_song)
           /\ song_state = 0
    /\ pc[Watcher] = "idle" => resolveCount = 0

\* C10 witness: the track changed from one reference to another and the
\* poll has returned.
C10_Witness ==
    /\ pc[Watcher] = "csu_ret"
    /\ polled
    /\ previous_song \in Tracks
    /\ current_song \in Tracks
    /\ previous_song # current_song
    /\ resolveCount = 1

\* C11: a poll that observes the same track reference as the poll before, or
\* no track, does not run the resolver, returns a code other than the error
\* code 3, and leaves the artifact file as it was when the poll began.
C11_NoChangeNoResolution ==
    /\ (InResolve /\ polled) => C10_Differ
    /\ (pc[Watcher] = "csu_ret" /\ polled /\ ~C10_Differ) =>
           /\ resolveCount = 0
           /\ resEnd = "none"
           /\ song_state \in {1, 2}
           /\ artifact = artAtPoll

\* C11 witness: the poll observed the track whose art the artifact holds,
\* the same track as the poll before, and has returned.
C11_Witness ==
    /\ pc[Watcher] = "csu_ret"
    /\ polled
    /\ current_song \in Tracks
    /\ current_song = previous_song
    /\ artifact = current_song
    /\ resolveCount = 0

\* A failure happened in the running cycle: the reconnect sequence of
\* _ensure_mpd_connection was exhausted, the poll returned the error code,
\* the resolver raised, or the long-poll wait used up its retries.
C12_Failed ==
    \/ ensState = "Reconnecting"
    \/ song_state = 3
    \/ resEnd \in {"raised", "noctor"}
    \/ (pc[Watcher] = "idle_ret" /\ retry_count = 0)

\* C12: the watcher loop never stops: it begins a new cycle again and
\* again, and after every failure in a cycle it begins another cycle.
C12_WatcherNeverStops ==
    /\ []<>(pc[Watcher] = "ens_ping")
    /\ []<>(pc[Watcher] # "ens_ping")
    /\ C12_Failed ~> (pc[Watcher] = "ens_ping")

\* C12 witness: a cycle in which the reconnect sequence was exhausted and
\* the long-poll wait used up its retries is about to end.
C12_Witness ==
    /\ pc[Watcher] = "idle_ret"
    /\ retry_count = 0
    /\ ensState = "Reconnecting"

\* C13: one long-poll wait calls client.idle at most 3 times: a further
\* call is made only after fewer than 3 calls, each with a retry left; a
\* successful call returns at once without a delay; after the third failed
\* call the wait returns to mpd_loop.
C13_IdleCallsBounded ==
    /\ idleCalls <= 3
    /\ pc[Watcher] = "idle" =>
           (idleCalls < 3 /\ retry_count = 3 - idleCalls)
    /\ (InReconnect(Watcher) /\ recRet[Watcher] = "idle") =>
           (idleCalls < 3 /\ retry_count = 3 - idleCalls)
    /\ pc[Watcher] = "idle_ret" =>
           \/ (retry_count = 3 /\ idleWait = 0 /\ idleCalls >= 1)
           \/ (retry_count = 0 /\ idleCalls = 3)

\* C13 witness: the wait returns after three failed calls.
C13_Witness ==
    /\ pc[Watcher] = "idle_ret"
    /\ idleCalls = 3
    /\ retry_count = 0

\* C14 (as claimed): every connection error of the idle call is followed by
\* an inline reconnect.
C14_EveryConnErrorReconnects ==
    idleRec # "skipped"

\* C14 (amended): a connection error of the idle call is followed by an
\* inline reconnect while a retry is left, and then the next call is made
\* with no delay after a successful reconnect and after 1 s after a failed
\* one; the connection error that uses up the last retry is not followed
\* by a reconnect; when the retries are used up the wait sleeps 1 s + 2 s
\* and returns.
C14_ConnErrorReconnectsWhileRetriesLeft ==
    /\ idleRec = "skipped" =>
           (retry_count = 0 /\ pc[Watcher] = "idle_ret")
    /\ (InReconnect(Watcher) /\ recRet[Watcher] = "idle") => retry_count > 0
    /\ (pc[Watcher] = "idle" /\ idleRec = "ok") => idleWait = 0
    /\ (pc[Watcher] = "idle" /\ idleRec = "failed") => idleWait = 1
    /\ (pc[Watcher] = "idle_ret" /\ retry_count = 0) =>
           (idleWait = 3 /\ idleRec \in {"skipped", "none"})

\* C14 witness: the third call failed with a connection error, no reconnect
\* followed, and the wait returns.
C14_Witness ==
    /\ pc[Watcher] = "idle_ret"
    /\ idleRec = "skipped"
    /\ idleCalls = 3

\* C15 (as claimed): once a strategy has yielded bytes in a resolution call,
\* no later strategy is invoked in that call.
C15_BytesShortCircuit ==
    \A i \in 1..Len(resLog) :
        resLog[i].got # "none" => (i = Len(resLog) /\ strategy = 0)

\* C15 (amended): once a strategy has succeeded in a resolution call (its
\* bytes were decoded and saved to the artifact path), no later strategy
\* is invoked in that call; a strategy whose bytes could not be decoded or
\* saved has produced no result.
C15_SuccessShortCircuits ==
    \A i \in 1..Len(resLog) :
        /\ resLog[i].ok =>
               /\ i = Len(resLog)
               /\ strategy = 0
               /\ resEnd = "found"
        /\ resLog[i].ok => resLog[i].got = "good"

\* C15 witness: the server's picture could not be decoded, the embedded
\* picture was saved, and the call returned without the cover lookup.
C15_Witness ==
    /\ pc[Watcher] = "csu_ret"
    /\ Len(resLog) = 2
    /\ resLog[1].got = "bad"
    /\ resLog[2].ok

\* Strategy k of the running resolution call has been invoked.
C16_Invoked(k) == k <= Len(resLog) \/ strategy = k

C17_ArtOrPlaceholder ==
    (pc[Watcher] = "csu_ret" /\ resEnd \in {"found", "notfound", "nofile"}) =>
        /\ artifact \in {resolveFor, "placeholder"}
        /\ resEnd # "found" => artifact = "placeholder"

\* C18 (stated as claimed; the code violates it): update_album_art never
\* loads a partially written artifact file.
C18_ReaderSeesCompleteFile ==
    uiSeen # "partial"

\* C19: mutagen_fetcher calls the extraction methods in the order ID3, FLAC,
\* MP4 and stops at the first that yields data; for a file with a FLAC
\* picture and no ID3 picture, whose picture is decoded and saved, the call
\* ends after the FLAC method, the artifact holds the track's art and the
\* cover lookup is not invoked.
C19_FormatOrder ==
    LET n == Len(fmtTried)
    IN  /\ \A i \in 1..n : fmtTried[i] = <<"ID3", "FLAC", "MP4">>[i]
        /\ \A i \in 1..n : i < n => fmtIn[fmtTried[i]] = "none"
        /\ (n >= 1 /\ n < 3) => fmtIn[fmtTried[n]] # "none"
        /\ (Len(resLog) >= 2 /\ resLog[2].s = "mutagen") => n >= 1
        /\ ( /\ pc[Watcher] = "csu_ret"
             /\ Len(resLog) >= 2
             /\ fmtIn["ID3"] = "none"
             /\ fmtIn["FLAC"] = "good"
             /\ "mutagen" \notin saveFailed ) =>
               /\ fmtTried = <<"ID3", "FLAC">>
               /\ Len(resLog) = 2
               /\ resLog[2].ok
               /\ resEnd = "found"
               /\ artifact = resolveFor

\* C19 witness: a file with a FLAC and an MP4 picture and no ID3 picture:
\* the FLAC picture was saved and the MP4 method was not called.
C19_Witness ==
    /\ pc[Watcher] = "csu_ret"
    /\ fmtIn["ID3"] = "none"
    /\ fmtIn["FLAC"] = "good"
    /\ fmtIn["MP4"] = "good"
    /\ fmtTried = <<"ID3", "FLAC">>
    /\ artifact = resolveFor

\* C20 (as claimed): a resolution call raises to its caller exactly when a
\* save of the artifact file failed in it, of the placeholder or of
\* resolved art.
C20_EscalatesIffWriteFails ==
    (pc[Watcher] = "csu_ret" /\ resEnd \notin {"none", "noctor"}) =>
        (resEnd = "raised" <=> saveFailed # {})

\* C20 (amended): a resolution call raises to its caller exactly when the
\* placeholder could not be set at the start of the call, before any
\* strategy was invoked; every failure inside a strategy, a failed save
\* of resolved art included, is swallowed and the call returns normally.
C20_EscalatesIffPlaceholderFails ==
    (pc[Watcher] = "csu_ret" /\ resEnd \notin {"none", "noctor"}) =>
        /\ resEnd = "raised" <=> "placeholder" \in saveFailed
        /\ resEnd = "raised" => resLog = <<>>
        /\ (saveFailed # {} /\ "placeholder" \notin saveFailed) =>
               resEnd \in {"found", "notfound"}

\* C20 witness: the save of the server's picture failed, no other strategy
\* had a result, and the call returned normally.
C20_Witness ==
    /\ pc[Watcher] = "csu_ret"
    /\ "readpicture" \in saveFailed
    /\ resEnd = "notfound"

\* C21: the input buffer never holds more than 4 digits, and the key event
\* that brings it to 4 digits starts exactly one thread - a transport command
\* or a track-index lookup - while every other key event starts none.
C21_OneDecisionPerEntry ==
    /\ Len(input_buffer) <= 4
    /\ Len(input_buffer) = 4 =>
         /\ Len(decisions) = 1
         /\ decisions[1].kind \in {"transport", "lookup"}
    /\ Len(input_buffer) < 4 => decisions = <<>>

\* C21 witness: an earlier entry was enqueued and its thread has ended; a
\* later entry has just been completed, and one lookup was started for it.
C21_Witness ==
    /\ Len(input_buffer) = 4
    /\ Len(decisions) = 1
    /\ decisions[1].kind = "lookup"
    /\ pc["d1"] = "add_read"
    /\ last_queue_length = 1

\* C22 (stated as claimed; the code violates it): once handle_input has
\* returned from the key event that completed an entry, the buffer is empty
\* and the input display shows no digit.
C22_EmptyAfterDispatch ==
    decisions # <<>> =>
        /\ input_buffer = <<>>
        /\ display_input = <<" ", " ", " ", " ">>

\* C22 (amended): when handle_input returns from the key event that
\* completed an entry, the buffer still holds the 4 digits of the value it
\* dispatched, and the input display shows them once its queued update has
\* run; they stay until the next digit arrives.
C22_EntryKeptAfterDispatch ==
    decisions # <<>> =>
        /\ Len(input_buffer) = 4
        /\ decisions[1].kind = "lookup" => decisions[1].line = ParseInt(input_buffer)
        /\ decisions[1].kind = "transport" => ParseInt(input_buffer) = 9999
        /\ inputPending = 0 => display_input = input_buffer

\* C22 witness: the entry 0002 has been dispatched, its thread has enqueued
\* the track and ended, and buffer and display still hold 0002.
C22_Witness ==
    /\ decisions # <<>>
    /\ input_buffer = <<"0", "0", "0", "2">>
    /\ display_input = <<"0", "0", "0", "2">>
    /\ pc["d1"] = "off"
    /\ last_queue_length = 1

\* C23 (stated as claimed; the code violates it): a digit that arrives while
\* the buffer holds 4 digits evicts only the oldest one, so that the new
\* buffer is the previous last three digits followed by the new digit.
C23_SlidingWindow ==
    [][(inputPending' = inputPending + 1 /\ Len(input_buffer) = 4) =>
          /\ Len(input_buffer') = 4
          /\ SubSeq(input_buffer', 1, 3) = SubSeq(input_buffer, 2, 4)]_vars

\* C23 (amended): a digit that arrives while the buffer holds 4 digits
\* flushes the buffer: the new buffer is that digit alone, no thread is
\* started for it, and the next entry is complete three digits later.  A
\* digit that arrives at a shorter buffer is appended to it.
C23_FlushedWhenFull ==
    [][inputPending' = inputPending + 1 =>
          /\ Len(input_buffer) = 4 =>
               /\ Len(input_buffer') = 1
               /\ input_buffer'[1] \in Keys
               /\ decisions' = <<>>
          /\ Len(input_buffer) < 4 =>
               /\ Len(input_buffer') = Len(input_buffer) + 1
               /\ SubSeq(input_buffer', 1, Len(input_buffer)) = input_buffer]_vars

\* C23 witness: the digit 9 arrived after the entry 0002 was dispatched; the
\* buffer holds 9 alone while the thread of 0002 is still running.
C23_Witness ==
    /\ input_buffer = <<"9">>
    /\ task["d1"] = "add"
    /\ line_number["d1"] = 2
    /\ pc["d1"] = "add_add"

C25_LineKEnqueued ==
    \A d \in Dispatchers :
        (task[d] = "add" /\ addLog[d].list.state = "ok") =>
            LET k == line_number[d]
                n == Len(addLog[d].list.lines)
            IN /\ (1 <= k /\ k <= n) =>
                    /\ song_path[d] = <<"ref", k>>
                    /\ addLog[d].added \in {NoRef, <<"ref", k>>}
                    /\ result[d] # "rejected"
                    /\ result[d] = "ok" => addLog[d].added = <<"ref", k>>
               /\ (k = 0 \/ k > n) =>
                    /\ pc[d] = "add_ret"
                    /\ result[d] = "rejected"
                    /\ addLog[d].calls = 0
                    /\ addLog[d].added = NoRef

\* C25 witness: 0002 was entered, the list had 3 lines, and the session
\* accepted the reference of line 2.
C25_Witness ==
    /\ task["d1"] = "add"
    /\ line_number["d1"] = 2
    /\ Len(addLog["d1"].list.lines) = 3
    /\ addLog["d1"].added = <<"ref", 2>>
    /\ result["d1"] = "ok"

\* C26: a lookup that fails - the list file is missing or cannot be read, or
\* the entry is outside [1, lineCount] - makes no session call, leaves the
\* tracked queue length alone, queues no update of the queue display and
\* sends no queue-add notification.
C26_FailedLookupChangesNothing ==
    \A d \in Dispatchers :
        (/\ task[d] = "add"
         /\ \/ addLog[d].list.state \in {"missing", "unreadable"}
            \/ /\ addLog[d].list.state = "ok"
               /\ \/ line_number[d] < 1
                  \/ line_number[d] > Len(addLog[d].list.lines)) =>
            /\ pc[d] = "add_ret"
            /\ addLog[d].calls = 0
            /\ addLog[d].incr = 0
            /\ addLog[d].displays = 0
            /\ addLog[d].notes = 0
            /\ addLog[d].added = NoRef

\* C26 witness: 0002 was entered while the list file could not be read; the
\* thread has ended and the tracked length is still the one an earlier
\* entry left.
C26_Witness ==
    /\ task["d1"] = "add"
    /\ line_number["d1"] = 2
    /\ addLog["d1"].list.state = "unreadable"
    /\ pc["d1"] = "add_ret"
    /\ last_queue_length = 1

\* C27: when add_song_to_mpd returns for a valid track index, it has
\* incremented the tracked queue length by exactly 1 and sent one queue-add
\* notification if the session accepted the enqueue command, and it has done
\* neither if the command failed or was never sent (command rejected,
\* connection error, failed reconnect).
C27_IncrementIffAccepted ==
    \A d \in Dispatchers :
        (task[d] = "add" /\ pc[d] = "add_ret" /\ result[d] # "rejected") =>
            IF addLog[d].added # NoRef
            THEN /\ result[d] = "ok"
                 /\ addLog[d].incr = 1
                 /\ addLog[d].notes = 1
                 /\ addLog[d].displays = 1
            ELSE /\ result[d] = "fail"
                 /\ addLog[d].incr = 0
                 /\ addLog[d].notes = 0
                 /\ addLog[d].displays = 0

\* C27 witness: the thread pinged the session and sent the enqueue command,
\* which failed; the tracked length is unchanged and nothing was notified.
C27_Witness ==
    /\ task["d1"] = "add"
    /\ pc["d1"] = "add_ret"
    /\ addLog["d1"].calls = 2
    /\ addLog["d1"].added = NoRef
    /\ addLog["d1"].incr = 0
    /\ addLog["d1"].notes = 0
    /\ last_queue_length = 0

\* C28: handling a key never takes the session lock and never calls the
\* session: the step leaves the lock, the session and the server as they
\* are, whoever holds the lock, and its only effect on a thread is to start
\* one, which begins outside the lock and outside any session call.
C28_KeyHandlingTakesNoLock ==
    [][inputPending' = inputPending + 1 =>
          /\ lock' = lock
          /\ client' = client
          /\ srvQueue' = srvQueue
          /\ \A t \in Threads :
               pc'[t] # pc[t] =>
                   /\ pc[t] = "off"
                   /\ pc'[t] \in {"exec_lock", "add_read"}
                   /\ lock' # t]_vars

\* C28 witness: three digits of the next entry have been handled while the
\* thread of the previous entry holds the lock in the backoff of its inline
\* reconnect.
C28_Witness ==
    /\ keyLock = "d1"
    /\ lock = "d1"
    /\ Len(input_buffer) = 3
    /\ pc["d1"] = "rec_conn"
    /\ recRet["d1"] = "exec_inline"
    /\ Len(recLog["d1"]) >= 1

\* C29: if the first connect of Tracker.__init__ fails the program exits:
\* the watcher is never started and no command is ever dispatched, since
\* nothing runs after the exit; once the application runs, no failure of the
\* session ends the program.
C29_FirstConnectFatal ==
    [][/\ (proc = "fetcher" /\ client' # "up") => proc' = "aborted"
       /\ proc' = "aborted" =>
              /\ \A t \in Threads : pc'[t] = "off"
              /\ decisions' = <<>>
              /\ \A d \in Dispatchers : cmdCalls'[d] = 0
       /\ proc # "aborted"
       /\ proc = "running" => proc' = "running"]_vars

\* C29 witness: the program has exited because the first connect failed; no
\* thread was started.
C29_Witness ==
    /\ proc = "aborted"
    /\ exitCause = "connect"
    /\ client = "new"
    /\ \A t \in Threads : pc[t] = "off"
    /\ decisions = <<>>

\* C30 (stated as claimed; the code violates it): a poll cycle whose status
\* query succeeded has forwarded the queue length to the display when
\* check_song_update returns, and nothing is forwarded while the art of a
\* changed track is still being resolved.
C30_ForwardedAfterComparison ==
    /\ (statusOk /\ pc[Watcher] = "csu_ret") =>
           queueShown = Rjust(Str(last_queue_length), DisplayWidth)
    /\ InResolve => queueShown = <<>>

\* C30 (amended): a successful status query sets the queue snapshot to the
\* length the server reports; the snapshot is forwarded to the display,
\* right-justified in four characters, exactly when the current-track query
\* of the same cycle also succeeds, and that happens before the comparison:
\* the display already shows it while the art of a changed track is being
\* resolved.
C30_ForwardedBeforeComparison ==
    /\ [][(pc[Watcher] = "csu_status" /\ statusOk') =>
              last_queue_length' = srvQueue]_vars
    /\ [](/\ queueShown # <<>> <=> polled
          /\ polled => statusOk
          /\ queueShown # <<>> =>
                 queueShown = Rjust(Str(last_queue_length), DisplayWidth)
          /\ InResolve => queueShown # <<>>)

\* C30 witness: the server reported one queued track, the display shows
\* "   1", and the resolver is still saving the art of the changed track.
C30_Witness ==
    /\ pc[Watcher] = "res_write"
    /\ statusOk
    /\ last_queue_length = 1
    /\ queueShown = <<" ", " ", " ", "1">>

\* C31: the image saved at the artifact path is at most 500 wide and 500
\* high; its aspect ratio is that of the decoded image up to the rounding
\* of the scaled side to a whole pixel (the scaled side is less than one
\* pixel away from its exact value); an image that is already within 500
\* by 500 is saved at its own size.
C31_ResizeInvariant ==
    written # NoImage =>
        /\ written.w >= 1 /\ written.w <= ThumbnailSize
        /\ written.h >= 1 /\ written.h <= ThumbnailSize
        /\ Abs(written.w * decoded.h - written.h * decoded.w)
               < Max(decoded.w, decoded.h)
        /\ (decoded.w <= ThumbnailSize /\ decoded.h <= ThumbnailSize) =>
               written = decoded

\* C31 witness: an image of 1001 by 503 was saved as 500 by 251.
C31_Witness ==
    /\ decoded = [w |-> 2 * ThumbnailSize + 1, h |-> ThumbnailSize + 3]
    /\ written = [w |-> 500, h |-> 251]

\* C32 (stated as claimed; the code violates it): check_song_update returns
\* 0 when the track changed, 1 when the track is the same as before, 2 when
\* no track is present, and 3 only when the poll failed.
C32_ReturnCodes ==
    pc[Watcher] = "csu_ret" =>
        IF polled
        THEN song_state = IF resolveCount > 0 THEN 0
                          ELSE IF current_song \in Tracks THEN 1 ELSE 2
        ELSE song_state \in {2, 3}

\* C33 (stated as claimed; the code violates it): the artifact becomes the
\* placeholder only in a step that ends a resolution without art.
C33_PlaceholderOnlyOnFailure ==
    [][(artifact' = "placeholder" /\ artifact # "placeholder") =>
           (pc'[Watcher] = "csu_ret" /\ resEnd' # "found")]_vars

\* C33 (amended): every resolution saves the placeholder first.  The fetch
\* methods are tried only after that save succeeded, the first of them
\* starts with the placeholder at the artifact path, and while they run the
\* path holds the placeholder or a file being written; a resolution that
\* ends with art leaves the track's art there.
C33_PlaceholderFirst ==
    /\ [][(strategy = 0 /\ strategy' = 1) => artifact' = "placeholder"]_vars
    /\ []((InResolve /\ strategy >= 1) =>
              /\ artifact \in {"placeholder", "partial"}
              /\ "placeholder" \notin saveFailed)
    /\ []((pc[Watcher] = "csu_ret" /\ resEnd = "found") => artifact = resolveFor)

\* C33 witness: a resolution has ended with the track's art, found by the
\* second fetch method; the placeholder was saved before the first was
\* tried.
C33_Witness ==
    /\ pc[Watcher] = "csu_ret"
    /\ resEnd = "found"
    /\ artifact = resolveFor
    /\ Len(resLog) = 2
    /\ "placeholder" \notin saveFailed

\* C34: within an attempt of execute_mpd_command the command is reached
\* only from a probe that succeeded or from an inline reconnect that
\* returned True, and from taking the lock until the command has been run
\* the thread holds the lock without a break; a failed probe followed by a
\* failed reconnect never leads to the command.
C34_CommandAfterProbeOrReconnect ==
    /\ [][\A d \in Dispatchers :
            (pc'[d] = "exec_cmd" /\ pc[d] # "exec_cmd") =>
                /\ lock = d /\ lock' = d
                /\ \/ pc[d] = "exec_ping" /\ probeFailed'[d] = probeFailed[d]
                   \/ /\ pc[d] = "rec_ret" /\ recRet[d] = "exec_inline"
                      /\ recOk[d] /\ probeFailed[d] /\ inlineRec[d]]_vars
    /\ [](\A d \in Dispatchers :
            (pc[d] \in {"exec_ping", "exec_cmd"} \/ recRet[d] = "exec_inline") =>
                lock = d)

\* C34 witness: the probe of the first attempt failed, the inline reconnect
\* succeeded, and the thread, still holding the lock, is about to run the
\* command.
C34_Witness ==
    /\ pc["d1"] = "exec_cmd"
    /\ attempt["d1"] = 1
    /\ probeFailed["d1"]
    /\ inlineRec["d1"]
    /\ lock = "d1"

\* The value of the entry that the last handle_input call dispatched.
C35_Dispatched ==
    IF decisions = <<>> THEN NoValue
    ELSE IF decisions[1].kind = "lookup" THEN decisions[1].line
    ELSE CHOOSE n \in {9999, 8888, 7777, 6666} : ReservedCommand(n) = decisions[1].cmd

\* C35: fed the same digit keys, handle_input (which flushes a full buffer
\* at the next digit) and a handler that clears its buffer right after each
\* dispatch dispatch at the same keys and the same values: at every fourth
\* digit, the value of the four digits entered since the dispatch before.
C35_DispatchEquivalence ==
    /\ C35_Dispatched = legacy_value
    /\ decisions # <<>> <=> legacy_buffer = <<>> /\ input_buffer # <<>>
    /\ decisions # <<>> => C35_Dispatched = ParseInt(input_buffer)
    /\ decisions = <<>> => input_buffer = legacy_buffer
    /\ Len(legacy_buffer) < BufferWidth

\* C35 witness: the second entry, 0002, has just been dispatched by both;
\* the first was enqueued.
C35_Witness ==
    /\ legacy_value = 2
    /\ legacy_buffer = <<>>
    /\ input_buffer = <<"0", "0", "0", "2">>
    /\ decisions # <<>>
    /\ last_queue_length = 1

\* The places where a thread waits for the session lock (mpd_client.py:73,
\* 171, 324).
C36_LockSites == {"exec_lock", "add_lock", "csu_lock"}

\* Thread t is inside one of the three with-blocks: execute's (with its
\* inline reconnect), the poll's (with the resolver) or the enqueue's (with
\* the metadata lookup and the notification).
C36_InWith(t) ==
    \/ pc[t] \in {"exec_ping", "exec_cmd", "add_add", "add_find",
                  "csu_status", "csu_currentsong"}
    \/ pc[t] \in ResolvePCs
    \/ pc[t] \in {"rec_close", "rec_conn", "rec_ret"} /\ recRet[t] = "exec_inline"

C38_RefreshAfterResolution ==
    /\ [][(last_song_path' # last_song_path \/ uiPending' > uiPending) =>
              /\ pc[Watcher] = "csu_ret"
              /\ song_state = 0
              /\ resEnd # "none"
              /\ resolveFor = FileOf(current_song)
              /\ last_song_path' = resolveFor
              /\ lock # Watcher
              /\ artifact' = artifact]_vars
    /\ []((pc[Watcher] = "csu_ret" /\ song_state = 0) =>
              /\ resolveCount = 1
              /\ resEnd # "none"
              /\ strategy = 0)
    /\ [](InResolve => song_state # 0)

\* C38 witness: the refresh for a track has been scheduled and the
\* artifact path holds the art that the resolution for that track wrote.
C38_Witness ==
    /\ pc[Watcher] = "idle"
    /\ current_song \in Tracks
    /\ last_song_path = current_song
    /\ artifact = current_song
    /\ uiPending = 1

\* C39 (stated as claimed; the code violates it): a poll that returns 0,
\* having re-resolved the art, is followed in the same cycle by the
\* scheduling of an artwork refresh, which _handle_song_change does exactly
\* when the current track's path differs from last_song_path.
C39_ResolvedThenRefreshed ==
    (pc[Watcher] = "csu_ret" /\ song_state = 0) =>
        last_song_path # FileOf(current_song)

\* A call to the server failed in the running cycle: the session is not
\* connected, a reconnect sequence is running or was exhausted, the poll
\* returned the error code, or the long-poll wait used up a retry.
C40_ConnectionTrouble ==
    \/ client # "up"
    \/ pc[Watcher] \in {"rec_close", "rec_conn", "rec_ret"}
    \/ ensState = "Reconnecting"
    \/ song_state = 3
    \/ retry_count < IdleRetries

\* C40 (stated as claimed; the code violates it): once a poll has detected
\* the change to track t and its resolution has returned normally, the
\* artifact path eventually holds t's art or the placeholder, unless the
\* track changes again or a call to the server fails.
C40_ChangeEventuallyShown ==
    \A t \in Tracks :
        (/\ pc[Watcher] = "csu_ret"
         /\ song_state = 0
         /\ current_song = t
         /\ resEnd \in {"found", "notfound", "nofile"})
            ~> (\/ artifact \in {t, "placeholder"}
                \/ current_song # t
                \/ C40_ConnectionTrouble)

====
